---- MODULE Spec2Model ----
(***************************************************************************)
(* Canaria: ingestion, storage and fan-out engine.                         *)
(*                                                                         *)
(* The module models, from the TypeScript sources,                         *)
(*   - EventStore.insert / latest on the SqliteAdapter the service is      *)
(*     wired with (packages/api/src/storage.ts, adapter),                  *)
(*   - IngestService.handleIncomingEvents / handleHeartbeat,               *)
(*   - ConnectionManager (handshake, broadcast, pingAll),                  *)
(*   - the POST /v1/events route handler,                                  *)
(*   - RateLimiter.check,                                                  *)
(*   - WebSocketConnector (status cycle, reconnect backoff, uptime),       *)
(*   - HealthMonitor.checkHealth and the health routes,                    *)
(*   - Signer.sign and the client's verification,                          *)
(*   - MetricsCollector.logRequest / performRollup,                        *)
(*   - the request lifecycle of the app (rate limiting, request log),      *)
(*   - the admin routes (authentication) and AdminHandler.handleAction,    *)
(*   - ConfigManager (initialization, update, persistence),                *)
(*   - the P2P feed handler and normalizeP2pEvent / normalizeTime,         *)
(*   - the web client's APIClient.getLatestEvents and CircuitBreaker,      *)
(*   - FeedManager.fetchP2pHistory,                                        *)
(*   - performPeriodicTasks and RateLimiter.cleanup.                       *)
(*                                                                         *)
(* Each subsystem has its own specification over the shared variables:     *)
(*   Spec      store + ingest pipeline + connection hub                    *)
(*   SpecSync  POST /v1/events handlers (sync handshake)                   *)
(*   SpecRL    rate limiter                                                *)
(*   SpecConn  feed connector                                              *)
(*   SpecTimed feed connector with a clock                                 *)
(*   SpecHealth health routes                                              *)
(*   SpecSign  signer                                                      *)
(*   SpecMetrics request log and rollup                                    *)
(*   SpecHttp  request lifecycle                                           *)
(*   SpecAdmin admin routes                                                *)
(*   SpecAction admin actions on the feed connectors                       *)
(*   SpecConfig configuration manager                                      *)
(*   SpecNorm  P2P feed handler and normalizer                             *)
(*   SpecClient read client with its circuit breaker                       *)
(*   SpecReconnect feed connector with a fair reconnect timer              *)
(*   SpecWatchdog feed connector with its inactivity watchdog              *)
(*   SpecHistory history fetch at start-up                                 *)
(*   SpecRing  POST /v1/events handlers on a filled error ring             *)
(*   SpecPeriodic periodic tasks (rollup gate, cleanup)                    *)
(*   SpecCleanup rate limiter with cleanup()                               *)
(***************************************************************************)
EXTENDS Integers, Sequences, FiniteSets, Bags, TLC

(***************************************************************************)
(* Bounds of the model                                                     *)
(***************************************************************************)
\* Ingest batches plus keepalive ticks in one run.
MaxOps == 2
\* POST /v1/events requests in one run.
MaxPosts == 2
\* Rate limiter: largest configured maxRequests, checks of one key in one
\* window, and the last second of the clock.
MaxRequests == 3
MaxHits == 5
MaxNow == 6
\* Checks in a row of one key without a rule that are told apart.
MaxFreeCalls == 3
\* Connector: connection attempts (sockets created or refused) in one run.
MaxAttempts == 8
\* Signer: envelopes produced in one run.
MaxEnvelopes == 3
\* Connector with a clock: connection attempts, and the last clock value (ms).
MaxTimedAttempts == 2
MaxClock == 17000
\* Metrics: request_logs rows written, performRollup calls, and the last
\* second of the clock in one run.
MaxLogs == 3
MaxRollups == 2
MaxMetricsNow == 90
\* HTTP: requests answered in one run, and the last second of the clock.
MaxHttpRequests == 4
MaxHttpNow == 3
\* Admin: /admin requests answered in one run.
MaxAdminRequests == 2

Sockets == {"s1", "s2"}

\* An EventRecord: eventId (primary key), source, time (ordering key of
\* latest()), and revision standing for the remaining payload columns.  The
\* universe holds two deliveries of event A that differ in their payload (one
\* from the KMA poller, one from the WolfX feed), and B from the P2P feed.
EvA == [eventId |-> "A", source |-> "KMA", time |-> 1, revision |-> 1]
EvA2 == [eventId |-> "A", source |-> "JMA", time |-> 2, revision |-> 2]
EvB == [eventId |-> "B", source |-> "P2PQUAKE", time |-> 2, revision |-> 1]

EventRecords == {EvA, EvA2, EvB}

\* The batches handed to the pipeline: a single event, an event twice in one
\* batch, a known event together with a new one, a re-delivery whose
\* payload differs.
Batches == { <<EvA>>, <<EvB>>, <<EvA, EvA>>, <<EvA, EvB>>, <<EvA2>> }

NoEvent == [eventId |-> "none", source |-> "none", time |-> 0, revision |-> 0]

Posts == 1..MaxPosts

\* Heartbeat of the poller (HeartbeatSchema): kmaConnection, error (nullable)
\* and lastParseTime; the k-th request carries lastParseTime = k.
NoHeartbeat == [present |-> FALSE, kmaConnection |-> FALSE, error |-> "null", lastParseTime |-> 0]
Heartbeats(k) == [present : {TRUE}, kmaConnection : BOOLEAN, error : {"null", "timeout"},
                  lastParseTime : {k}]

\* IngestPayloadSchema: { heartbeat?, events? }
NoPayload == [heartbeat |-> NoHeartbeat, events |-> <<>>]
PostBodies(k) == [heartbeat : Heartbeats(k) \cup {NoHeartbeat}, events : {<<>>, <<EvA>>}]

VARIABLES
  events,        \* rows of the events table (a set of EventRecords)
  lastStoredAt,  \* IngestService.lastStoredAt (number of updates; 0 = null)
  insertResult,  \* observation of the last EventStore.insert call
  tasks,         \* bag of handleIncomingEvents calls suspended at
                 \* `await Promise.all(sign)`; they resume in any order
  clients,       \* ConnectionManager.clients
  totalConnections,
  accepted,      \* sockets that went through handleClientWebSocket
  frames,        \* frames delivered to each socket, in order
  rebroadcast,   \* observation: eventIds broadcast to a subscriber although
                 \* they were persisted before their batch
  lastFailed,    \* observation: subscribers whose send threw in the last
                 \* broadcast / pingAll
  bcSeq,         \* number of broadcast / pingAll calls so far
  nBatches,      \* number of batches handed to handleIncomingEvents
  backups,       \* saveProjection promises handed to waitUntil
  nPings,
  \* --- POST /v1/events
  deployment,         \* which entry point serves the route: "api" or "monolith"
  needsKmaSync,       \* IngestService.needsKmaSync
  parserHeartbeat,    \* IngestService.parserHeartbeat
  parserErrorHistory, \* IngestService.parserErrorHistory
  pc,                 \* position of each POST handler
  reqBody,            \* body of each POST
  reqCred,            \* whether each POST carried the poller's credential
  resp,               \* response of each POST
  \* --- RateLimiter
  rlEnabled,     \* config.rateLimit.enabled
  rlRule,        \* config.rateLimit.limits["GET /v1/events"]
  rlNow,         \* Math.floor(Date.now() / 1000)
  rlRows,        \* rate_limits table: key -> row
  rlHits,        \* observation: checks of each key in its current window
  rlLast,        \* observation of the last RateLimiter.check call
  \* --- WebSocketConnector
  conn,          \* fields of one WebSocketConnector (and its FeedState)
  sockState,     \* state of every WebSocket the connector created
  nAttempts,     \* connect() calls so far
  nowMs,           \* Date.now() as the connector reads it (ms)
  connectedTime, \* observation: time that passed while status was connected
  \* --- health
  feedStates,    \* the Durable Object's copy of each connector's status
  parserTimeoutSeconds,  \* config.monitoring.parserTimeoutSeconds
  healthResp,    \* observation of the last GET /health or GET /status answer
  \* --- Signer
  envelopes,     \* observation: the envelopes Signer.sign has returned
  \* --- MetricsCollector
  requestLogs,   \* request_logs table (a bag of rows: the table has no key)
  metricsRollup, \* metrics_rollup table (a set of rows, one per composite key)
  rollObs,       \* observation of the last two performRollup calls
  \* --- HTTP request lifecycle
  httpResp,      \* observation of the last request that went through the app
  \* --- admin routes
  envAdminSecret, \* env.ADMIN_SECRET ("" when not set)
  adminResp,     \* observation of the last /admin request
  \* --- admin actions on the feeds
  feedConn,      \* the FeedManager's two WebSocketConnectors
  actionResp,    \* observation of the last AdminHandler.handleAction call
  \* --- ConfigManager
  cfgEnv,        \* the environment variables ConfigManager reads
  cfgRow,        \* the row of the config table with id = 1
  cfgMem,        \* ConfigManager.config of the live manager
  cfgObs,        \* observation of the last ConfigManager operation
  \* --- normalizers
  normIn,        \* the upstream message handed to the feed handler
  normOut,       \* observation of what the handler made of it
  \* --- read client (APIClient and its CircuitBreaker)
  breaker,       \* CircuitBreaker fields: state, failures, lastFailureTime
  clientNow,     \* Date.now() as the client reads it (ms)
  reads,         \* position of each getLatestEvents call
  readObs,       \* observation of the calls so far
  \* --- FeedManager.fetchP2pHistory
  histResp,      \* the array of the history response, as the API sent it
  histPos,       \* items of the reversed array the loop has taken
  histWait,      \* whether the loop is suspended at `await onEvent(event)`
  histLog,       \* observation: what happened to each item, in order
  \* --- performPeriodicTasks
  lastRollup,    \* MetricsCollector.lastRollup (s; 0 before the first rollup)
  lastCleanup,   \* MetricsCollector.lastCleanup
  lastRollupCheck, \* the Durable Object's lastRollupCheck
  wsClientHistory, \* ws_client_history table: the minutes that have a row
  periodicNow,   \* Date.now() as performPeriodicTasks reads it (s)
  lastCall       \* observation: when performPeriodicTasks last ran

storeVars == <<events, lastStoredAt, insertResult, tasks, nBatches, backups>>
hubVars == <<clients, totalConnections, accepted, frames, rebroadcast, lastFailed, bcSeq, nPings>>

syncVars == <<deployment, needsKmaSync, parserHeartbeat, parserErrorHistory, pc, reqBody, reqCred, resp>>

rlVars == <<rlEnabled, rlRule, rlNow, rlRows, rlHits, rlLast>>

connVars == <<conn, sockState, nAttempts>>
clockVars == <<nowMs, connectedTime>>
healthVars == <<feedStates, parserTimeoutSeconds, healthResp>>
signVars == <<envelopes>>
metricsVars == <<requestLogs, metricsRollup, rollObs>>
httpVars == <<httpResp>>
adminVars == <<envAdminSecret, adminResp>>
actionVars == <<feedConn, actionResp>>
configVars == <<cfgEnv, cfgRow, cfgMem, cfgObs>>
normVars == <<normIn, normOut>>
clientVars == <<breaker, clientNow, reads, readObs>>
histVars == <<histResp, histPos, histWait, histLog>>
periodicVars == <<lastRollup, lastCleanup, lastRollupCheck, wsClientHistory, periodicNow, lastCall>>

vars == <<storeVars, hubVars, syncVars, rlVars, connVars, clockVars, healthVars, signVars, metricsVars, httpVars, adminVars, actionVars, configVars, normVars, clientVars, histVars, periodicVars>>

(***************************************************************************)
(* EventStore on the SqliteAdapter                                         *)
(***************************************************************************)

\* INSERT OR IGNORE INTO events ... : the row is added unless a row with the
\* same primary key (eventId) exists; an existing row is left as it is.
InsertOrReplace(tbl, ev) ==
  {r \in tbl : r.eventId # ev.eventId} \cup {ev}

InsertOrIgnore(tbl, ev) ==
  IF \E r \in tbl : r.eventId = ev.eventId THEN tbl ELSE tbl \cup {ev}

\* SqliteAdapter.prepare(...).run: executes the statement and reports
\* { changes: 1 } whatever the statement did.
AdapterRunChanges(tbl, ev) == 1

\* What SQLite did: 1 when the row materialized, 0 when it was ignored.
RowsMaterialized(tbl, ev) ==
  IF \E r \in tbl : r.eventId = ev.eventId THEN 0 ELSE 1

\* EventStore.insert(events): one stmt.run per event, inserted += 1 when the
\* adapter reports changes === 1.  Returns the table, the returned count and
\* (observation) the number of rows that materialized.
RECURSIVE InsertLoop(_, _, _, _, _)
InsertLoop(tbl, batch, i, inserted, materialized) ==
  IF i > Len(batch)
  THEN [table |-> tbl, inserted |-> inserted, materialized |-> materialized]
  ELSE InsertLoop(InsertOrIgnore(tbl, batch[i]), batch, i + 1,
                  IF AdapterRunChanges(tbl, batch[i]) = 1
                  THEN inserted + 1 ELSE inserted,
                  materialized + RowsMaterialized(tbl, batch[i]))

Insert(tbl, batch) ==
  IF Len(batch) = 0
  THEN [table |-> tbl, inserted |-> 0, materialized |-> 0]
  ELSE InsertLoop(tbl, batch, 1, 0, 0)

\* EventStore.latest(): SELECT * FROM events ORDER BY time DESC LIMIT 1.
\* Rows with equal time are returned in an order SQLite chooses.
LatestRows(tbl) == {r \in tbl : \A q \in tbl : q.time <= r.time}

Count(tbl) == Cardinality(tbl)

StoredIds(tbl) == {r.eventId : r \in tbl}

\* SELECT COUNT(1) FROM events, without the WHERE clause.
CountBySourceNoFilter(tbl, source) == Cardinality(tbl)

\* EventStore.countBySource(source): SELECT COUNT(1) ... WHERE source = ?
CountBySource(tbl, source) == Cardinality({r \in tbl : r.source = source})

(***************************************************************************)
(* Signer                                                                  *)
(***************************************************************************)
\* Signer.sign(ev): { payload: JSON.stringify(ev), signature, timestamp }.
\* The key pair: PRIVATE_KEY_JWK of the signer and PUBLIC_KEY_JWK of the web
\* client, each named by its d and x members.
PRIVATE_KEY_JWK == [d |-> "cJKVaNJt", x |-> "pTRkHaM6"]
PUBLIC_KEY_JWK == [x |-> "pTRkHaM6"]

\* crypto.subtle.sign("Ed25519", key, bytes) and crypto.subtle.verify: an
\* ideal deterministic signature.  The signature is a value that names the
\* public part of the signing key and the signed bytes, and verification
\* accepts exactly that value.
Ed25519Sign(key, bytes) == <<"ed25519", key.x, bytes>>
Ed25519Verify(pub, sig, bytes) == sig = <<"ed25519", pub.x, bytes>>

\* btoa(String.fromCharCode(...bytes)) and Uint8Array.from(atob(s), ...)
Btoa(bytes) == <<"base64", bytes>>
Atob(str) == IF str[1] = "base64" THEN str[2] ELSE <<>>

\* JSON.stringify(data) of an event record
JsonStringify(ev) == <<ev.eventId, ev.time, ev.revision>>

\* A signer whose signature covers the eventId only.
SignEventIdOnly(ev) ==
  [payload |-> JsonStringify(ev),
   signature |-> Btoa(Ed25519Sign(PRIVATE_KEY_JWK, <<ev.eventId, 0, 0>>))]

\* Signer.sign without its timestamp: the payload string and the base64
\* signature over that string.
Sign(ev) ==
  [payload |-> JsonStringify(ev),
   signature |-> Btoa(Ed25519Sign(PRIVATE_KEY_JWK, JsonStringify(ev)))]

\* Signer.sign: { payload, signature, timestamp: Date.now() }
SignAt(ev, t) ==
  [payload |-> Sign(ev).payload, signature |-> Sign(ev).signature, timestamp |-> t]

\* CryptoService.verify of the web client
Verify(envelope) ==
  Ed25519Verify(PUBLIC_KEY_JWK, Atob(envelope.signature), envelope.payload)

SignAll(batch) == [i \in 1..Len(batch) |-> Sign(batch[i])]

(***************************************************************************)
(* ConnectionManager                                                       *)
(***************************************************************************)
SnapshotFrame(ev) == [type |-> "event", event |-> ev, signedEvents |-> <<>>]
SignedFrame(batch) == [type |-> "signedEvents", event |-> NoEvent,
                       signedEvents |-> SignAll(batch)]
PingFrame == [type |-> "ping", event |-> NoEvent, signedEvents |-> <<>>]

\* The loop of broadcast / pingAll over Array.from(this.clients): `failed` is
\* the set of subscribers whose send throws.  A failed subscriber is deleted
\* from the set, every other one receives the payload.
SendKeepFailed(cl, fr, payload, failed) ==
  [clients |-> cl,
   frames |-> [s \in Sockets |->
                 IF s \in cl \ failed THEN Append(fr[s], payload) ELSE fr[s]]]

SendToAll(cl, fr, payload, failed) ==
  [clients |-> cl \ failed,
   frames |-> [s \in Sockets |->
                 IF s \in cl \ failed THEN Append(fr[s], payload) ELSE fr[s]]]

\* Frames sent to a socket by handleClientWebSocket after register():
\* the latest event when the store has one.
HandshakeNoSnapshot(latest) == <<>>

HandshakeFrames(latest) ==
  IF latest = NoEvent THEN <<>> ELSE <<SnapshotFrame(latest)>>

Ips == {"1.2.3.4", "5.6.7.8"}
Endpoints == {"GET /v1/events", "GET /api_docs.html"}
RuledEndpoint == "GET /v1/events"
\* The endpoint keys config.rateLimit.limits has a rule for (all hold the
\* same rule in this model).
RuledEndpoints == {RuledEndpoint, "PUT /admin/config", "POST /admin/actions"}
RlKeys == Ips \X (Endpoints \cup RuledEndpoints)

\* A rate-limit rule as ConfigManager holds it: { maxRequests, windowSeconds }.
WindowChoices == {2, 3}
Rules == [maxRequests : 0..MaxRequests, windowSeconds : WindowChoices]

NoRow == [present |-> FALSE, count |-> 0, window_start |-> 0]
NoCheck == [ip |-> "none", endpoint |-> "none", ruled |-> FALSE, allowed |-> TRUE,
            limit |-> 0, remaining |-> 0, resetAt |-> 0,
            windowStart |-> 0, before |-> NoRow, nth |-> 0]

InitRL ==
  /\ rlEnabled = TRUE
  /\ rlRule = [maxRequests |-> MaxRequests, windowSeconds |-> 2]
  /\ rlNow = 0
  /\ rlRows = [k \in RlKeys |-> NoRow]
  /\ rlHits = [k \in RlKeys |-> [window |-> 0, n |-> 0]]
  /\ rlLast = NoCheck

BASE_BACKOFF_MS == 2000
MAX_BACKOFF_MS == 60000

SocketIds == 1..MaxAttempts

\* WebSocketConnector after construction.  socket = 0 and reconnectTimer = 0
\* stand for null, as does -1 in connectedAt and disconnectedAt; a pending
\* reconnectTimer holds its delay.  Observations: delays, the reconnect
\* delays scheduled since the last socket open; opens, the open events so
\* far; freshOpen, whether the first open found no recorded disconnection;
\* watchdogs, the inactivity timeouts set and not cleared; idle, the time
\* since the watchdog was armed.
InitConn ==
  /\ conn = [started |-> FALSE, socket |-> 0, reconnectTimer |-> 0,
             inactivityTimer |-> FALSE, pingTimer |-> FALSE,
             backoff |-> BASE_BACKOFF_MS,
             status |-> "connecting", lastMessage |-> FALSE, lastError |-> "null",
             connectedAt |-> -1, disconnectedAt |-> -1,
             reconnectCount |-> 0, totalUptime |-> 0, lastHeartbeat |-> FALSE,
             delays |-> <<>>, opens |-> 0, freshOpen |-> FALSE,
             watchdogs |-> 0, idle |-> 0]
  /\ sockState = [i \in SocketIds |-> "unused"]
  /\ nAttempts = 0
  /\ nowMs = 0
  /\ connectedTime = 0

Feeds == {"wolfx", "p2p"}
NoRollup == [n |-> 0, window |-> -1, logs |-> EmptyBag,
             prevWindow |-> -1, prevLogs |-> EmptyBag]

NoHttpResp == [n |-> 0, at |-> 0, ip |-> "none", endpoint |-> "none", checked |-> FALSE,
               status |-> 0, headers |-> {}, handlerRan |-> FALSE, logged |-> <<>>]
Undefined == <<"undefined">>
NoAuthHeader == [present |-> FALSE, prefix7 |-> "", rest |-> ""]
NoAdminResp == [n |-> 0, endpoint |-> "none", authHeader |-> NoAuthHeader,
                queryAuth |-> Undefined, status |-> 0,
                handlerRan |-> FALSE, applied |-> "none"]

\* No request answered yet.
InitHttp ==
  /\ httpResp = NoHttpResp
  /\ adminResp = NoAdminResp

\* The deployment has its admin secret set.
InitEnv == envAdminSecret = "s3cret"

\* Both connectors as constructed, before startAll; no admin action yet.
NoConnector == [started |-> FALSE, status |-> "connecting", socket |-> 0,
                created |-> 0, reconnectTimer |-> FALSE]
NoActionResp == [n |-> 0, action |-> "none", feed |-> Undefined,
                 success |-> FALSE, message |-> "none"]
InitAction ==
  /\ feedConn = [f \in Feeds |-> NoConnector]
  /\ actionResp = NoActionResp

\* The state of the subsystems a specification leaves idle.
NoTimestamp == [text |-> "undefined", sep |-> "", tee |-> "", clock |-> 0, off |-> ""]

\* No config row in the store and no ConfigManager constructed yet.
InitConfig ==
  /\ cfgEnv = [METRICS_ROLLUP_INTERVAL |-> "", METRICS_RETENTION_DAYS |-> "",
               ROLLUP_RETENTION_DAYS |-> "", RATE_LIMIT_ENABLED |-> ""]
  /\ cfgRow = [present |-> FALSE, value |-> [type |-> "null", json |-> <<>>]]
  /\ cfgMem = [assigned |-> FALSE, cache |-> <<>>]
  /\ cfgObs = [n |-> 0, op |-> "none", partial |-> [none |-> TRUE], managers |-> 0]

\* No message handled yet.
InitNorm ==
  /\ normIn = [code |-> 0, time |-> NoTimestamp, id |-> "", issueTime |-> NoTimestamp,
               serial |-> "", magnitude |-> <<"null">>, latitude |-> <<"null">>,
               longitude |-> <<"null">>]
  /\ normOut = [n |-> 0, now |-> 0, via |-> "none", emitted |-> FALSE,
                event |-> [eventId |-> [given |-> "", prefix |-> "", parts |-> <<>>],
                           source |-> "none", reportType |-> 0,
                           time |-> NoTimestamp, issueTime |-> NoTimestamp,
                           receiveTime |-> NoTimestamp,
                           latitude |-> <<"null">>, longitude |-> <<"null">>,
                           magnitude |-> <<"null">>]]

\* The breaker as constructed and no read under way.
InitClient ==
  /\ breaker = [state |-> "CLOSED", failures |-> 0, lastFailureTime |-> 0]
  /\ clientNow = 0
  /\ reads = [r \in 1..2 |-> "idle"]
  /\ readObs = [n |-> 0, source |-> "none", stateSeen |-> "none", primaryContacts |-> 0,
                consecutiveFailures |-> 0, probeSuccesses |-> 0]

\* No history fetched.
InitHistory ==
  /\ histResp = <<>>
  /\ histPos = 0
  /\ histWait = FALSE
  /\ histLog = <<>>

\* The process start, as Date.now() / 1000: a minute boundary long after 1970.
EpochStart == 7200

\* MetricsCollector and the Durable Object as constructed.
InitPeriodic ==
  /\ lastRollup = 0
  /\ lastCleanup = 0
  /\ lastRollupCheck = 0
  /\ wsClientHistory = {}
  /\ periodicNow = EpochStart
  /\ lastCall = 0

InitExt == InitAction /\ InitConfig /\ InitNorm /\ InitClient /\ InitHistory /\ InitPeriodic

\* Empty request_logs and metrics_rollup tables.
InitMetrics ==
  /\ requestLogs = EmptyBag
  /\ metricsRollup = {}
  /\ rollObs = NoRollup

NoHealthResp == [flip |-> FALSE, route |-> "none", httpStatus |-> 0, status |-> "none",
                 healthy |-> FALSE, parser |-> FALSE, feeds |-> FALSE,
                 database |-> FALSE, dbThrew |-> FALSE]

\* feedStates of the Durable Object and the default monitoring config.
InitHealth ==
  /\ feedStates = [f \in Feeds |-> "connecting"]
  /\ parserTimeoutSeconds = 60
  /\ healthResp = NoHealthResp
  /\ envelopes = {}
  /\ InitMetrics
  /\ InitHttp
  /\ InitEnv
  /\ InitExt

InitSync ==
  /\ needsKmaSync = TRUE
  /\ parserHeartbeat = NoHeartbeat
  /\ parserErrorHistory = <<>>
  /\ pc = [h \in Posts |-> "idle"]
  /\ reqBody = [h \in Posts |-> NoPayload]
  /\ reqCred = [h \in Posts |-> FALSE]
  /\ resp = [h \in Posts |-> "none"]

InitStoreHub ==
  /\ events = {}
  /\ lastStoredAt = 0
  /\ insertResult = [inserted |-> 0, materialized |-> 0,
                     threw |-> FALSE, rejected |-> FALSE]
  /\ backups = 0
  /\ tasks = EmptyBag
  /\ clients = {}
  /\ totalConnections = 0
  /\ accepted = {}
  /\ frames = [s \in Sockets |-> <<>>]
  /\ rebroadcast = {}
  /\ lastFailed = {}
  /\ bcSeq = 0
  /\ nBatches = 0
  /\ nPings = 0

Init ==
  /\ InitStoreHub
  /\ InitSync
  /\ InitRL
  /\ InitConn
  /\ InitHealth
  /\ deployment = "api"

\* IngestService.handleIncomingEvents(batch), up to its first suspension:
\* store.insert, and when inserted > 0 lastStoredAt is set and the call
\* suspends at `await Promise.all(events.map(sign))`.  owner is 0 for a
\* connector callback and the POST handler's number for a poller submission.
HandleIncomingEvents(batch, owner) ==
  LET res == Insert(events, batch) IN
    /\ events' = res.table
    /\ insertResult' = [inserted |-> res.inserted,
                        materialized |-> res.materialized,
                        threw |-> FALSE, rejected |-> FALSE]
    /\ UNCHANGED backups
    /\ IF res.inserted > 0
       THEN /\ lastStoredAt' = lastStoredAt + 1
            /\ tasks' = tasks (+) SetToBag({[batch |-> batch, known |-> StoredIds(events),
                                             owner |-> owner]})
       ELSE UNCHANGED <<lastStoredAt, tasks>>
    /\ nBatches' = nBatches + 1

\* try { ... } catch (error) { console.error(...) } around the whole body:
\* the promise of handleIncomingEvents does not reject when insert throws.
RejectsWhenInsertThrows(threw) == threw

Rejects(threw) == FALSE

\* handleIncomingEvents when the k-th statement of EventStore.insert throws:
\* the rows of the statements before it are stored, the catch block logs,
\* and nothing after the insert call runs.
HandleIncomingEventsThrows(batch, k) ==
  LET res == Insert(events, SubSeq(batch, 1, k - 1)) IN
    /\ events' = res.table
    /\ insertResult' = [inserted |-> 0, materialized |-> res.materialized,
                        threw |-> TRUE, rejected |-> Rejects(TRUE)]
    /\ nBatches' = nBatches + 1
    /\ UNCHANGED <<lastStoredAt, tasks, backups>>

IngestBatchThrows(batch, k) ==
  /\ nBatches + nPings < MaxOps
  /\ k \in 1..Len(batch)
  /\ HandleIncomingEventsThrows(batch, k)
  /\ UNCHANGED hubVars
  /\ UNCHANGED syncVars
  /\ UNCHANGED rlVars
  /\ UNCHANGED <<connVars, clockVars, healthVars, signVars, metricsVars, httpVars, adminVars, actionVars, configVars, normVars, clientVars, histVars, periodicVars>>

\* A batch enters the pipeline: the onEvent callback of a connector or of the
\* history fetch ([ev]), or the events of a poller submission.
IngestBatch(batch) ==
  /\ nBatches + nPings < MaxOps
  /\ HandleIncomingEvents(batch, 0)
  /\ UNCHANGED hubVars
  /\ UNCHANGED syncVars
  /\ UNCHANGED rlVars
  /\ UNCHANGED <<connVars, clockVars, healthVars, signVars, metricsVars, httpVars, adminVars, actionVars, configVars, normVars, clientVars, histVars, periodicVars>>

\* Continuation of handleIncomingEvents after the signatures resolved:
\* connectionManager.broadcast({ signedEvents }) with every event of the
\* batch, then the backup projection is handed to waitUntil.
BroadcastSigned(t, failed) ==
  /\ BagIn(t, tasks)
  /\ failed \subseteq clients
  /\ LET res == SendToAll(clients, frames, SignedFrame(t.batch), failed) IN
       /\ clients' = res.clients
       /\ frames' = res.frames
       /\ rebroadcast' =
            IF clients \ failed = {} THEN rebroadcast
            ELSE rebroadcast \cup
                   {t.batch[k].eventId : k \in {j \in 1..Len(t.batch) :
                                                  t.batch[j].eventId \in t.known}}
  /\ lastFailed' = failed
  /\ bcSeq' = bcSeq + 1
  /\ tasks' = tasks (-) SetToBag({t})
  /\ backups' = backups + 1
  /\ UNCHANGED <<events, lastStoredAt, insertResult, nBatches>>
  /\ UNCHANGED <<totalConnections, accepted, nPings>>

IngestResume(t, failed) ==
  /\ t.owner = 0
  /\ BroadcastSigned(t, failed)
  /\ UNCHANGED syncVars
  /\ UNCHANGED rlVars
  /\ UNCHANGED <<connVars, clockVars, healthVars, signVars, metricsVars, httpVars, adminVars, actionVars, configVars, normVars, clientVars, histVars, periodicVars>>

\* ConnectionManager.handleClientWebSocket for an Upgrade: websocket request:
\* accept, register, then send { event: latest } when the store is non-empty.
\* The handler has no suspension point.
Handshake(s, latest) ==
  /\ s \notin accepted
  /\ s = "s2" => "s1" \in accepted   \* sockets are named in the order they connect
  /\ \/ events = {} /\ latest = NoEvent
     \/ latest \in LatestRows(events)
  /\ accepted' = accepted \cup {s}
  /\ clients' = clients \cup {s}
  /\ totalConnections' = totalConnections + 1
  /\ frames' = [frames EXCEPT ![s] = frames[s] \o HandshakeFrames(latest)]
  /\ UNCHANGED <<rebroadcast, lastFailed, bcSeq, nPings>>
  /\ UNCHANGED storeVars
  /\ UNCHANGED syncVars
  /\ UNCHANGED rlVars
  /\ UNCHANGED <<connVars, clockVars, healthVars, signVars, metricsVars, httpVars, adminVars, actionVars, configVars, normVars, clientVars, histVars, periodicVars>>

\* ConnectionManager.pingAll, fired by the setInterval of startPings.
PingAll(failed) ==
  /\ nBatches + nPings < MaxOps
  /\ failed \subseteq clients
  /\ LET res == SendToAll(clients, frames, PingFrame, failed) IN
       /\ clients' = res.clients
       /\ frames' = res.frames
  /\ lastFailed' = failed
  /\ bcSeq' = bcSeq + 1
  /\ nPings' = nPings + 1
  /\ UNCHANGED <<totalConnections, accepted, rebroadcast>>
  /\ UNCHANGED storeVars
  /\ UNCHANGED syncVars
  /\ UNCHANGED rlVars
  /\ UNCHANGED <<connVars, clockVars, healthVars, signVars, metricsVars, httpVars, adminVars, actionVars, configVars, normVars, clientVars, histVars, periodicVars>>

\* close / error listener attached by register(): clients.delete(socket).
ClientClose(s) ==
  /\ s \in clients
  /\ clients' = clients \ {s}
  /\ UNCHANGED <<totalConnections, accepted, frames, rebroadcast, lastFailed, bcSeq, nPings>>
  /\ UNCHANGED storeVars
  /\ UNCHANGED syncVars
  /\ UNCHANGED rlVars
  /\ UNCHANGED <<connVars, clockVars, healthVars, signVars, metricsVars, httpVars, adminVars, actionVars, configVars, normVars, clientVars, histVars, periodicVars>>

Next ==
  \/ \E b \in Batches : IngestBatch(b)
  \/ \E b \in Batches, k \in 1..2 : IngestBatchThrows(b, k)
  \/ \E t \in BagToSet(tasks), f \in SUBSET Sockets : IngestResume(t, f)
  \/ \E s \in Sockets, e \in EventRecords \cup {NoEvent} : Handshake(s, e)
  \/ \E f \in SUBSET Sockets : PingAll(f)
  \/ \E s \in Sockets : ClientClose(s)

Spec == Init /\ [][Next]_vars

(***************************************************************************)
(* POST /v1/events                                                         *)
(***************************************************************************)
MAX_PARSER_ERRORS == 10

IngestState ==
  [parserHeartbeat |-> parserHeartbeat,
   parserErrorHistory |-> parserErrorHistory,
   needsKmaSync |-> needsKmaSync]

Unshift(hist, hb) ==
  IF hb.error # "null"
  THEN <<[timestamp |-> hb.lastParseTime, error |-> hb.error]>> \o hist
  ELSE hist

Trim(hist) ==
  IF Len(hist) > MAX_PARSER_ERRORS THEN SubSeq(hist, 1, MAX_PARSER_ERRORS) ELSE hist

\* IngestService.handleHeartbeat
HandleHeartbeatKeepFlag(st, hb) ==
  [parserHeartbeat |-> hb,
   parserErrorHistory |-> Trim(Unshift(st.parserErrorHistory, hb)),
   needsKmaSync |-> st.needsKmaSync]

HandleHeartbeat(st, hb) ==
  [parserHeartbeat |-> hb,
   parserErrorHistory |-> Trim(Unshift(st.parserErrorHistory, hb)),
   needsKmaSync |-> IF st.needsKmaSync /\ hb.kmaConnection
                    THEN FALSE ELSE st.needsKmaSync]

\* `if (payload.heartbeat) deps.ingestService.handleHeartbeat(payload.heartbeat)`
HeartbeatIfPresent(st, body) ==
  IF body.heartbeat.present THEN HandleHeartbeat(st, body.heartbeat) ELSE st

\* The route handler after `await handleIncomingEvents`: wasNeeded and hasKma
\* are read, handleHeartbeat is called (again), and the response is chosen.
PostTail(st, body) ==
  LET wasNeeded == st.needsKmaSync
      hasKma == body.heartbeat.present /\ body.heartbeat.kmaConnection
  IN [state |-> HeartbeatIfPresent(st, body),
      resp |-> IF wasNeeded /\ hasKma THEN "200 sync" ELSE "204"]

SetIngestState(st) ==
  /\ parserHeartbeat' = st.parserHeartbeat
  /\ parserErrorHistory' = st.parserErrorHistory
  /\ needsKmaSync' = st.needsKmaSync

\* The route handler of packages/api from its start to its first suspension:
\* handleHeartbeat, then handleIncomingEvents when the body has events (the
\* handler awaits it); a body without events runs to the response at once.
PostBegin(h, body, cred) ==
  /\ deployment = "api"
  /\ pc[h] = "idle"
  /\ h > 1 => pc[h - 1] # "idle"
  /\ body \in PostBodies(h)
  /\ reqBody' = [reqBody EXCEPT ![h] = body]
  /\ reqCred' = [reqCred EXCEPT ![h] = cred]
  /\ LET st == HeartbeatIfPresent(IngestState, body) IN
       IF Len(body.events) > 0
       THEN /\ SetIngestState(st)
            /\ HandleIncomingEvents(body.events, h)
            /\ pc' = [pc EXCEPT ![h] = IF Insert(events, body.events).inserted > 0
                                       THEN "awaitSign" ELSE "resumable"]
            /\ UNCHANGED resp
       ELSE /\ SetIngestState(PostTail(st, body).state)
            /\ resp' = [resp EXCEPT ![h] = PostTail(st, body).resp]
            /\ pc' = [pc EXCEPT ![h] = "done"]
            /\ UNCHANGED storeVars
  /\ UNCHANGED hubVars
  /\ UNCHANGED deployment
  /\ UNCHANGED rlVars
  /\ UNCHANGED <<connVars, clockVars, healthVars, signVars, metricsVars, httpVars, adminVars, actionVars, configVars, normVars, clientVars, histVars, periodicVars>>

\* handleIncomingEvents of a POST resumes after signing: broadcast, backup.
PostIngestResume(t, failed) ==
  /\ t.owner \in Posts
  /\ BroadcastSigned(t, failed)
  /\ pc' = [pc EXCEPT ![t.owner] = "resumable"]
  /\ UNCHANGED <<deployment, needsKmaSync, parserHeartbeat, parserErrorHistory, reqBody, reqCred, resp>>
  /\ UNCHANGED rlVars
  /\ UNCHANGED <<connVars, clockVars, healthVars, signVars, metricsVars, httpVars, adminVars, actionVars, configVars, normVars, clientVars, histVars, periodicVars>>

\* The route handler resumes after `await handleIncomingEvents`.
PostFinish(h) ==
  /\ deployment = "api"
  /\ pc[h] = "resumable"
  /\ SetIngestState(PostTail(IngestState, reqBody[h]).state)
  /\ resp' = [resp EXCEPT ![h] = PostTail(IngestState, reqBody[h]).resp]
  /\ pc' = [pc EXCEPT ![h] = "done"]
  /\ UNCHANGED <<deployment, reqBody, reqCred>>
  /\ UNCHANGED storeVars
  /\ UNCHANGED hubVars
  /\ UNCHANGED rlVars
  /\ UNCHANGED <<connVars, clockVars, healthVars, signVars, metricsVars, httpVars, adminVars, actionVars, configVars, normVars, clientVars, histVars, periodicVars>>

\* The monolithic entry point: the heartbeat is stored inline (the flag is
\* not touched there).
MonoHeartbeat(st, body) ==
  IF body.heartbeat.present
  THEN [parserHeartbeat |-> body.heartbeat,
        parserErrorHistory |-> Trim(Unshift(st.parserErrorHistory, body.heartbeat)),
        needsKmaSync |-> st.needsKmaSync]
  ELSE st

\* `if (this.needsKmaSync && payload.heartbeat?.kmaConnection)`: clear and
\* answer { sync: true }, else 204.
MonoTail(st, body) ==
  IF st.needsKmaSync /\ body.heartbeat.present /\ body.heartbeat.kmaConnection
  THEN [state |-> [st EXCEPT !.needsKmaSync = FALSE], resp |-> "200 sync"]
  ELSE [state |-> st, resp |-> "204"]

EventsFrame(batch) == [type |-> "events", event |-> NoEvent, signedEvents |-> batch]

\* The monolith's handler up to its suspension.  Its handleIncomingEvents has
\* no suspension point: insert, lastStoredAt, broadcast({ events }).
MonoPostBegin(h, body, cred, failed) ==
  /\ deployment = "monolith"
  /\ pc[h] = "idle"
  /\ h > 1 => pc[h - 1] # "idle"
  /\ body \in PostBodies(h)
  /\ failed \subseteq clients
  /\ reqBody' = [reqBody EXCEPT ![h] = body]
  /\ reqCred' = [reqCred EXCEPT ![h] = cred]
  /\ LET st == MonoHeartbeat(IngestState, body)
         res == Insert(events, body.events)
         sent == SendToAll(clients, frames, EventsFrame(body.events), failed) IN
       IF Len(body.events) > 0
       THEN /\ SetIngestState(st)
            /\ events' = res.table
            /\ insertResult' = [inserted |-> res.inserted, materialized |-> res.materialized,
                                threw |-> FALSE, rejected |-> FALSE]
            /\ nBatches' = nBatches + 1
            /\ IF res.inserted > 0
               THEN /\ lastStoredAt' = lastStoredAt + 1
                    /\ clients' = sent.clients
                    /\ frames' = sent.frames
                    /\ lastFailed' = failed
                    /\ bcSeq' = bcSeq + 1
               ELSE UNCHANGED <<lastStoredAt, clients, frames, lastFailed, bcSeq>>
            /\ pc' = [pc EXCEPT ![h] = "resumable"]
            /\ UNCHANGED <<resp, tasks, backups>>
       ELSE /\ SetIngestState(MonoTail(st, body).state)
            /\ resp' = [resp EXCEPT ![h] = MonoTail(st, body).resp]
            /\ pc' = [pc EXCEPT ![h] = "done"]
            /\ UNCHANGED storeVars
            /\ UNCHANGED <<clients, frames, lastFailed, bcSeq>>
  /\ UNCHANGED <<totalConnections, accepted, rebroadcast, nPings>>
  /\ UNCHANGED deployment
  /\ UNCHANGED rlVars
  /\ UNCHANGED <<connVars, clockVars, healthVars, signVars, metricsVars, httpVars, adminVars, actionVars, configVars, normVars, clientVars, histVars, periodicVars>>

MonoPostFinish(h) ==
  /\ deployment = "monolith"
  /\ pc[h] = "resumable"
  /\ SetIngestState(MonoTail(IngestState, reqBody[h]).state)
  /\ resp' = [resp EXCEPT ![h] = MonoTail(IngestState, reqBody[h]).resp]
  /\ pc' = [pc EXCEPT ![h] = "done"]
  /\ UNCHANGED <<deployment, reqBody, reqCred>>
  /\ UNCHANGED storeVars
  /\ UNCHANGED hubVars
  /\ UNCHANGED rlVars
  /\ UNCHANGED <<connVars, clockVars, healthVars, signVars, metricsVars, httpVars, adminVars, actionVars, configVars, normVars, clientVars, histVars, periodicVars>>

InitPost ==
  /\ InitStoreHub
  /\ InitSync
  /\ InitRL
  /\ InitConn
  /\ InitHealth
  /\ deployment \in {"api", "monolith"}

NextSync ==
  \/ \E h \in Posts : \E body \in PostBodies(h), cred \in BOOLEAN : PostBegin(h, body, cred)
  \/ \E t \in BagToSet(tasks), f \in SUBSET Sockets : PostIngestResume(t, f)
  \/ \E h \in Posts : PostFinish(h)
  \/ \E h \in Posts : \E body \in PostBodies(h), cred \in BOOLEAN, f \in SUBSET Sockets :
        MonoPostBegin(h, body, cred, f)
  \/ \E h \in Posts : MonoPostFinish(h)

SpecSync == InitPost /\ [][NextSync]_vars

(***************************************************************************)
(* RateLimiter                                                             *)
(***************************************************************************)
\* ConfigManager.getRateLimit(endpoint): null when rate limiting is disabled
\* or no rule is configured for the endpoint.
HasRuleWhenDisabled(endpoint) == endpoint \in RuledEndpoints

HasRule(endpoint) == rlEnabled /\ endpoint \in RuledEndpoints

\* windowStart = now - (now % limit.windowSeconds)
WindowStart(now, windowSeconds) == now - (now % windowSeconds)

\* The count read from the row: the stored count when the row belongs to the
\* current window, else 0.
CountIgnoringWindow(row, windowStart) ==
  IF row.present THEN row.count ELSE 0

CountInWindow(row, windowStart) ==
  IF row.present /\ row.window_start = windowStart THEN row.count ELSE 0

\* allowed = count < limit.maxRequests
AllowedUpTo(count, maxRequests) == count <= maxRequests

Allowed(count, maxRequests) == count < maxRequests

\* remaining = Math.max(0, limit.maxRequests - count - 1)
RemainingBeforeRequest(count, maxRequests) ==
  IF maxRequests - count > 0 THEN maxRequests - count ELSE 0

Remaining(count, maxRequests) ==
  IF maxRequests - count - 1 > 0 THEN maxRequests - count - 1 ELSE 0

\* RateLimiter.check(ip, endpoint): the result it returns (last), the
\* rate_limits table it leaves (rows), and whether the call is within the
\* bounds of the model (ok).
CheckOutcome(ip, endpoint) ==
  IF ~HasRule(endpoint)
  THEN LET again == ~rlLast.ruled /\ rlLast.ip = ip /\ rlLast.endpoint = endpoint
           nth == IF ~again THEN 1
                  ELSE IF rlLast.nth < MaxFreeCalls THEN rlLast.nth + 1
                  ELSE MaxFreeCalls
       IN [ok |-> TRUE, rows |-> rlRows, hits |-> rlHits,
           last |-> [NoCheck EXCEPT !.ip = ip, !.endpoint = endpoint, !.nth = nth]]
  ELSE LET key == <<ip, endpoint>>
           windowStart == WindowStart(rlNow, rlRule.windowSeconds)
           row == rlRows[key]
           count == CountInWindow(row, windowStart)
           allowed == Allowed(count, rlRule.maxRequests)
           nth == IF rlHits[key].n > 0 /\ rlHits[key].window = windowStart
                  THEN rlHits[key].n + 1 ELSE 1
       IN [ok |-> nth <= MaxHits,
           rows |-> IF allowed
                    THEN [rlRows EXCEPT ![key] = [present |-> TRUE, count |-> count + 1,
                                                  window_start |-> windowStart]]
                    ELSE rlRows,
           hits |-> [rlHits EXCEPT ![key] = [window |-> windowStart, n |-> nth]],
           last |-> [ip |-> ip, endpoint |-> endpoint, ruled |-> TRUE,
                     allowed |-> allowed, limit |-> rlRule.maxRequests,
                     remaining |-> Remaining(count, rlRule.maxRequests),
                     resetAt |-> windowStart + rlRule.windowSeconds,
                     windowStart |-> windowStart, before |-> row, nth |-> nth]]

\* RateLimiter.check(ip, endpoint): the call and its effect on the limiter.
CheckApply(o) ==
  /\ o.ok
  /\ rlRows' = o.rows
  /\ rlHits' = o.hits
  /\ rlLast' = o.last
  /\ UNCHANGED <<rlEnabled, rlRule, rlNow>>

CheckCall(ip, endpoint) == CheckApply(CheckOutcome(ip, endpoint))

\* RateLimiter.check(ip, endpoint), called on its own.
Check(ip, endpoint) ==
  /\ CheckCall(ip, endpoint)
  /\ UNCHANGED <<storeVars, hubVars, syncVars, connVars, clockVars, healthVars, signVars, metricsVars, httpVars, adminVars, actionVars, configVars, normVars, clientVars, histVars, periodicVars>>

\* The wall clock advances by one second.
Tick ==
  /\ rlNow < MaxNow
  /\ rlNow' = rlNow + 1
  /\ UNCHANGED <<rlEnabled, rlRule, rlRows, rlHits, rlLast>>
  /\ UNCHANGED <<storeVars, hubVars, syncVars, connVars, clockVars, healthVars, signVars, metricsVars, httpVars, adminVars, actionVars, configVars, normVars, clientVars, histVars, periodicVars>>

InitLimiter ==
  /\ InitStoreHub
  /\ InitSync
  /\ deployment = "api"
  /\ rlEnabled \in BOOLEAN
  /\ rlRule \in Rules
  /\ rlNow = 0
  /\ rlRows = [k \in RlKeys |-> NoRow]
  /\ rlHits = [k \in RlKeys |-> [window |-> 0, n |-> 0]]
  /\ rlLast = NoCheck
  /\ InitConn
  /\ InitHealth

NextRL ==
  \/ \E ip \in Ips, ep \in Endpoints : Check(ip, ep)
  \/ Tick

SpecRL == InitLimiter /\ [][NextRL]_vars

(***************************************************************************)
(* Claims on the rate limiter (under SpecRL)                               *)
(***************************************************************************)
LastKey == <<rlLast.ip, rlLast.endpoint>>

\* C6: within one window the first maxRequests checks of a key are allowed
\* and every later one is denied; a denied check leaves the row unchanged,
\* and no stored count exceeds maxRequests.
C6_WindowLimit ==
  /\ rlLast.ruled =>
        /\ rlLast.allowed <=> rlLast.nth <= rlRule.maxRequests
        /\ ~rlLast.allowed => rlRows[LastKey] = rlLast.before
  /\ \A k \in RlKeys : rlRows[k].present => rlRows[k].count <= rlRule.maxRequests

\* maxRequests = 3: the fourth check of the window was denied and left the
\* row at count 3.
C6_Witness ==
  /\ rlLast.ruled /\ rlRule.maxRequests = 3
  /\ rlLast.nth = 4 /\ ~rlLast.allowed
  /\ rlRows[LastKey].count = 3

\* C7 as stated: the first check of a key in a new window is allowed, returns
\* remaining = maxRequests - 1 and stores count 1 for the new window, for
\* every configured rule.
C7_FirstInWindowAllowed ==
  (rlLast.ruled /\ rlLast.nth = 1) =>
     /\ rlLast.allowed
     /\ rlLast.remaining = rlRule.maxRequests - 1
     /\ rlRows[LastKey] = [present |-> TRUE, count |-> 1,
                            window_start |-> rlLast.windowStart]

\* C7 amended: the same for every rule with maxRequests >= 1.
C7_FirstInWindowAllowedPositive ==
  (rlLast.ruled /\ rlLast.nth = 1 /\ rlRule.maxRequests >= 1) =>
     /\ rlLast.allowed
     /\ rlLast.remaining = rlRule.maxRequests - 1
     /\ rlRows[LastKey] = [present |-> TRUE, count |-> 1,
                            window_start |-> rlLast.windowStart]

\* The previous window was used up (count = maxRequests) and the first check
\* of the next window was made.
C7_Witness ==
  /\ rlLast.ruled /\ rlLast.nth = 1 /\ rlRule.maxRequests >= 1
  /\ rlLast.before.present
  /\ rlLast.before.count = rlRule.maxRequests
  /\ rlLast.before.window_start < rlLast.windowStart
  /\ rlLast.allowed

(***************************************************************************)
(* MetricsCollector                                                        *)
(***************************************************************************)
LogEndpoints == <<"/health", "/v1/events">>
LogStatuses == <<200, 429>>
LogDurations == {10, 25}

\* DEFAULT_CONFIG.metrics.rollupInterval
RollupInterval == "1m"

\* ConfigManager.getRollupIntervalMs / getRollupIntervalSeconds
GetRollupIntervalMs ==
  CASE RollupInterval = "1m" -> 60000
    [] RollupInterval = "5m" -> 300000
    [] RollupInterval = "15m" -> 900000
    [] RollupInterval = "1h" -> 3600000
    [] OTHER -> 60000

GetRollupIntervalSeconds == GetRollupIntervalMs \div 1000

\* A REAL column value, kept exact as a fraction in lowest terms.
RECURSIVE Gcd(_, _)
Gcd(a, b) == IF b = 0 THEN a ELSE Gcd(b, a % b)

Real(num, den) == <<num \div Gcd(num, den), den \div Gcd(num, den)>>

\* Rows of request_logs with from <= timestamp < to.
LogsBetween(logs, from, to) ==
  LET S == {r \in BagToSet(logs) : from <= r.timestamp /\ r.timestamp < to}
  IN [r \in S |-> logs[r]]

\* COUNT(*) and SUM(duration_ms) over the rows of a bag.
RECURSIVE CountRows(_, _)
CountRows(logs, S) ==
  IF S = {} THEN 0
  ELSE LET r == CHOOSE x \in S : TRUE
       IN logs[r] + CountRows(logs, S \ {r})

RECURSIVE SumDuration(_, _)
SumDuration(logs, S) ==
  IF S = {} THEN 0
  ELSE LET r == CHOOSE x \in S : TRUE
       IN logs[r] * r.duration_ms + SumDuration(logs, S \ {r})

\* SELECT endpoint, status, COUNT(*), AVG(duration_ms) ... GROUP BY endpoint,
\* status: one row per non-empty group, in the order of the group key (the
\* order SQLite's GROUP BY sorter yields them in).
GroupRows(logs) ==
  LET group(e, st) == {r \in BagToSet(logs) : r.endpoint = e /\ r.status = st}
      row(e, st) == [endpoint |-> e, status |-> st,
                     count |-> CountRows(logs, group(e, st)),
                     avg_duration |-> Real(SumDuration(logs, group(e, st)),
                                           CountRows(logs, group(e, st)))]
      keys == <<<<1, 1>>, <<1, 2>>, <<2, 1>>, <<2, 2>>>>
      hit == SelectSeq(keys, LAMBDA k : group(LogEndpoints[k[1]], LogStatuses[k[2]]) # {})
  IN [i \in 1..Len(hit) |-> row(LogEndpoints[hit[i][1]], LogStatuses[hit[i][2]])]

\* String(row.status)
StatusString(st) == IF st = 200 THEN "200" ELSE "429"

\* PRIMARY KEY (timestamp, interval_seconds, metric_name, labels)
RollupKey(r) == <<r.timestamp, r.interval_seconds, r.metric_name, r.labels>>

\* INSERT OR REPLACE INTO metrics_rollup: the row takes the place of the row
\* with the same key.
UpsertRollupAdd(tbl, row) ==
  LET old == {r \in tbl : RollupKey(r) = RollupKey(row)}
  IN (tbl \ old) \cup
     {[row EXCEPT !.count = row.count + CountRows([r \in old |-> r.count], old)]}

UpsertRollup(tbl, row) ==
  {r \in tbl : RollupKey(r) # RollupKey(row)} \cup {row}

\* The body of performRollup's loop, for the i-th row of the query and on.
RECURSIVE RollupLoop(_, _, _, _, _)
RollupLoop(tbl, rows, i, ts, interval) ==
  IF i > Len(rows) THEN tbl
  ELSE LET row == rows[i]
           total == [timestamp |-> ts, interval_seconds |-> interval,
                     metric_name |-> "requests_total",
                     labels |-> <<row.endpoint, StatusString(row.status)>>,
                     value |-> Real(row.count, 1), count |-> 1]
           avg == [timestamp |-> ts, interval_seconds |-> interval,
                   metric_name |-> "request_duration_avg",
                   labels |-> <<row.endpoint>>,
                   value |-> row.avg_duration, count |-> row.count]
       IN RollupLoop(UpsertRollup(UpsertRollup(tbl, total), avg),
                     rows, i + 1, ts, interval)

\* MetricsCollector.logRequest(endpoint, method, status, durationMs, ip, ua)
LogRequest(endpoint, status, durationMs) ==
  /\ BagCardinality(requestLogs) < MaxLogs
  /\ requestLogs' = requestLogs (+) SetToBag({[timestamp |-> rlNow, endpoint |-> endpoint,
                                               status |-> status, duration_ms |-> durationMs]})
  /\ UNCHANGED <<metricsRollup, rollObs>>
  /\ UNCHANGED <<storeVars, hubVars, syncVars, rlVars, connVars, clockVars, healthVars, signVars, httpVars, adminVars, actionVars, configVars, normVars, clientVars, histVars, periodicVars>>

\* MetricsCollector.performRollup()
PerformRollup ==
  LET intervalSeconds == GetRollupIntervalSeconds
      currentWindow == rlNow - (rlNow % intervalSeconds)
      logs == LogsBetween(requestLogs, currentWindow - intervalSeconds, currentWindow)
  IN /\ rollObs.n < MaxRollups
     /\ metricsRollup' = RollupLoop(metricsRollup, GroupRows(logs), 1,
                                    currentWindow - intervalSeconds, intervalSeconds)
     /\ rollObs' = [n |-> rollObs.n + 1, window |-> currentWindow - intervalSeconds,
                    logs |-> logs, prevWindow |-> rollObs.window,
                    prevLogs |-> rollObs.logs]
     /\ UNCHANGED requestLogs
     /\ UNCHANGED <<storeVars, hubVars, syncVars, rlVars, connVars, clockVars, healthVars, signVars, httpVars, adminVars, actionVars, configVars, normVars, clientVars, histVars, periodicVars>>

\* The wall clock advances by half a minute.
MetricsTick ==
  /\ rlNow + 30 <= MaxMetricsNow
  /\ rlNow' = rlNow + 30
  /\ UNCHANGED <<rlEnabled, rlRule, rlRows, rlHits, rlLast>>
  /\ UNCHANGED <<storeVars, hubVars, syncVars, connVars, clockVars, healthVars, signVars, metricsVars, httpVars, adminVars, actionVars, configVars, normVars, clientVars, histVars, periodicVars>>

NextMetrics ==
  \/ \E e \in {LogEndpoints[i] : i \in 1..Len(LogEndpoints)},
        st \in {LogStatuses[i] : i \in 1..Len(LogStatuses)},
        d \in LogDurations : LogRequest(e, st, d)
  \/ PerformRollup
  \/ MetricsTick

SpecMetrics == Init /\ [][NextMetrics]_vars

\* C16: a performRollup call for the window of the call before it, made
\* while the request logs of that window are what that call read, leaves
\* metrics_rollup as it is: the same rows with the same values.
C16_RollupIdempotent ==
  [][(/\ rollObs'.n = rollObs.n + 1
      /\ rollObs.n > 0
      /\ rollObs'.window = rollObs.window
      /\ rollObs'.logs = rollObs.logs)
     => metricsRollup' = metricsRollup]_vars

\* performRollup ran twice for one window holding several requests of one
\* group, and the window's rows are in the table.
C16_Witness ==
  /\ rollObs.n >= 2
  /\ rollObs.window = rollObs.prevWindow
  /\ rollObs.logs = rollObs.prevLogs
  /\ \E r \in metricsRollup :
       /\ r.metric_name = "requests_total"
       /\ r.timestamp = rollObs.window
       /\ r.value = <<2, 1>>
  /\ \E r \in metricsRollup : r.metric_name = "request_duration_avg"

\* C18: when rate limiting is disabled, or the endpoint has no rule, every
\* check is allowed and the rate_limits table stays as it is.
C18_NoRuleAlwaysAllowed ==
  [][(/\ rlLast' # rlLast
      /\ (~rlEnabled \/ rlLast'.endpoint # RuledEndpoint))
     => (rlLast'.allowed /\ rlRows' = rlRows)]_vars

\* An address had several checks of an endpoint without a rule answered
\* while the table holds its row for the ruled endpoint.
C18_Witness ==
  /\ rlEnabled
  /\ rlLast.endpoint = "GET /api_docs.html"
  /\ rlLast.allowed
  /\ rlLast.nth >= 3
  /\ rlRows[<<rlLast.ip, RuledEndpoint>>].present

(***************************************************************************)
(* HTTP request lifecycle (rate limiting and request log)                  *)
(***************************************************************************)
Routes == {[method |-> "GET", pathname |-> "/v1/events"],
           [method |-> "GET", pathname |-> "/api_docs.html"]}

\* The client address the requests of a run arrive with (CF-Connecting-IP).
HttpIps == {"1.2.3.4"}

\* const endpoint = `${request.method} ${url.pathname}`
EndpointKey(route) == route.method \o " " \o route.pathname

\* String(n) of an integer: its decimal rendering, kept as the digits' value
\* tagged as a string.
String(n) == <<"dec", n>>

\* The headers set on a denied request.
DeniedHeaders(limitRes, now) ==
  {<<"X-RateLimit-Limit", String(limitRes.limit)>>,
   <<"X-RateLimit-Remaining", String(limitRes.remaining)>>,
   <<"X-RateLimit-Reset", String(limitRes.resetAt)>>,
   <<"Retry-After", String(limitRes.resetAt - now)>>}

DeniedHeadersOnEveryResponse(limitRes, allowed, now) ==
  DeniedHeaders(limitRes, now)

\* set.headers when the response leaves: nothing is set for an allowed
\* request.
ResponseHeaders(limitRes, allowed, now) ==
  IF allowed THEN {} ELSE DeniedHeaders(limitRes, now)

\* metrics.logRequest(url.pathname, request.method, status, 0, ip, userAgent)
\* for each status of a sequence.
RECURSIVE LogAll(_, _, _, _)
LogAll(logs, pathname, now, statuses) ==
  IF statuses = <<>> THEN logs
  ELSE LogAll(logs (+) SetToBag({[timestamp |-> now, endpoint |-> pathname,
                                  status |-> Head(statuses), duration_ms |-> 0]}),
              pathname, now, Tail(statuses))

\* One request through onBeforeHandle, the route handler and onAfterHandle.
\* upgrade: the request carries "Upgrade: websocket" and skips the limiter.
\* afterOnDeny: whether the framework still runs onAfterHandle when
\* onBeforeHandle has answered the request.
HttpRequest(ip, route, upgrade, afterOnDeny) ==
  /\ httpResp.n < MaxHttpRequests
  /\ IF upgrade THEN UNCHANGED rlVars ELSE CheckCall(ip, EndpointKey(route))
  /\ LET allowed == upgrade \/ rlLast'.allowed
         status == IF allowed THEN 200 ELSE 429
         logged == (IF allowed THEN <<>> ELSE <<429>>)
                   \o (IF allowed \/ afterOnDeny THEN <<status>> ELSE <<>>)
     IN /\ httpResp' = [n |-> httpResp.n + 1, at |-> rlNow, ip |-> ip,
                        endpoint |-> EndpointKey(route), checked |-> ~upgrade,
                        status |-> status,
                        headers |-> IF upgrade THEN {}
                                    ELSE ResponseHeaders(rlLast', allowed, rlNow),
                        handlerRan |-> allowed, logged |-> logged]
        /\ requestLogs' = LogAll(requestLogs, route.pathname, rlNow, logged)
  /\ UNCHANGED <<metricsRollup, rollObs, envAdminSecret, adminResp>>
  /\ UNCHANGED <<storeVars, hubVars, syncVars, connVars, clockVars, healthVars, signVars, actionVars, configVars, normVars, clientVars, histVars, periodicVars>>

\* The wall clock advances by one second.
HttpTick ==
  /\ rlNow < MaxHttpNow
  /\ rlNow' = rlNow + 1
  /\ UNCHANGED <<rlEnabled, rlRule, rlRows, rlHits, rlLast>>
  /\ UNCHANGED <<storeVars, hubVars, syncVars, connVars, clockVars, healthVars, signVars, metricsVars, httpVars, adminVars, actionVars, configVars, normVars, clientVars, histVars, periodicVars>>

InitHttpSpec == InitLimiter

NextHttp ==
  \/ \E ip \in HttpIps, route \in Routes, upgrade \in BOOLEAN, afterOnDeny \in BOOLEAN :
        HttpRequest(ip, route, upgrade, afterOnDeny)
  \/ HttpTick

SpecHttp == InitHttpSpec /\ [][NextHttp]_vars

\* The result of the check made for the last answered request, when that
\* request fell under a configured rule.
UnderRule == httpResp.checked /\ rlEnabled /\ httpResp.endpoint = RuledEndpoint

HeaderValue(name) == CHOOSE v \in {h[2] : h \in {x \in httpResp.headers : x[1] = name}} : TRUE

\* C17: under a matching rule, limit = maxRequests, resetAt = windowStart +
\* windowSeconds for the window the request time falls in, and remaining is
\* the number of requests the window still admits after this one; a denied
\* request's headers carry these values and Retry-After = resetAt - now.
C17_ResultFields ==
  UnderRule =>
    LET key == <<httpResp.ip, httpResp.endpoint>>
        w == rlRule.windowSeconds
        windowStart == (httpResp.at \div w) * w
        made == rlHits[key].n
        further == IF rlRule.maxRequests > made THEN rlRule.maxRequests - made ELSE 0
    IN /\ rlLast.limit = rlRule.maxRequests
       /\ rlLast.resetAt = windowStart + w
       /\ rlLast.remaining = further
       /\ httpResp.status = 429 =>
            /\ further = 0
            /\ httpResp.headers =
                 {<<"X-RateLimit-Limit", String(rlRule.maxRequests)>>,
                  <<"X-RateLimit-Remaining", String(0)>>,
                  <<"X-RateLimit-Reset", String(windowStart + w)>>,
                  <<"Retry-After", String(windowStart + w - httpResp.at)>>}

\* The 4th request of a window under maxRequests = 3 was denied, after the
\* window's first second.
C17_Witness ==
  /\ UnderRule
  /\ rlRule.maxRequests = 3
  /\ rlHits[<<httpResp.ip, httpResp.endpoint>>].n = 4
  /\ httpResp.status = 429
  /\ httpResp.at % rlRule.windowSeconds # 0
  /\ HeaderValue("X-RateLimit-Remaining") = String(0)

\* C19: every response to a checked request carries X-RateLimit-Limit,
\* X-RateLimit-Remaining and X-RateLimit-Reset; a denied request is answered
\* 429 with Retry-After, is logged with status 429 and its handler does not
\* run.
C19_HeadersOnEveryResponse ==
  httpResp.checked =>
    /\ {"X-RateLimit-Limit", "X-RateLimit-Remaining", "X-RateLimit-Reset"}
          \subseteq {h[1] : h \in httpResp.headers}
    /\ ~rlLast.allowed =>
          /\ httpResp.status = 429
          /\ "Retry-After" \in {h[1] : h \in httpResp.headers}
          /\ \E i \in 1..Len(httpResp.logged) : httpResp.logged[i] = 429
          /\ \E r \in BagToSet(requestLogs) : r.status = 429 /\ r.timestamp = httpResp.at
          /\ ~httpResp.handlerRan

(***************************************************************************)
(* Admin routes                                                            *)
(***************************************************************************)
AdminRoutes == {[method |-> "PUT", pathname |-> "/admin/config"],
                [method |-> "POST", pathname |-> "/admin/actions"]}

\* A string value, as opposed to undefined.
Str(str) == <<"string", str>>

\* Credentials of a request: its Authorization header (absent, or its first
\* seven characters and the rest) and its ?auth query value.
Bearer(token) == [present |-> TRUE, prefix7 |-> "Bearer ", rest |-> token]

Credentials ==
  {[authHeader |-> NoAuthHeader, queryAuth |-> Undefined],
   [authHeader |-> NoAuthHeader, queryAuth |-> Str("s3cret")],
   [authHeader |-> Bearer("s3cret"), queryAuth |-> Undefined],
   [authHeader |-> Bearer("wrong"), queryAuth |-> Str("s3cret")],
   [authHeader |-> Bearer("change-this-secret"), queryAuth |-> Undefined],
   [authHeader |-> [present |-> TRUE, prefix7 |-> "Basic s", rest |-> "3cret"],
    queryAuth |-> Str("wrong")]}

\* Request bodies: a Partial<Config> for PUT /admin/config (rateLimit.enabled)
\* and an AdminActionRequest for POST /admin/actions.
AdminBodies ==
  {[enabled |-> FALSE, action |-> "reset_ratelimit", ip |-> "1.2.3.4"],
   [enabled |-> TRUE, action |-> "unknown", ip |-> "1.2.3.4"]}

\* deps.adminSecret || "change-this-secret", where deps.adminSecret is
\* env.ADMIN_SECRET || "change-this-secret".
AdminSecret ==
  Str(IF envAdminSecret # "" THEN envAdminSecret ELSE "change-this-secret")

\* authHeader?.startsWith("Bearer ") ? authHeader.substring(7) : query.auth
TokenOf(authHeader, queryAuth) ==
  IF authHeader.present /\ authHeader.prefix7 = "Bearer "
  THEN Str(authHeader.rest) ELSE queryAuth

\* token !== adminSecret
UnauthorizedUnlessDefault(token, secret) ==
  token # secret /\ token # Str("change-this-secret")

Unauthorized(token, secret) == token # secret

\* RateLimiter.reset(ip): DELETE FROM rate_limits WHERE key LIKE `${ip}:%`
Reset(rows, ip) == [k \in DOMAIN rows |-> IF k[1] = ip THEN NoRow ELSE rows[k]]

\* The status an /admin request is answered with: 429 from the app's
\* onBeforeHandle (rate limiting), else 401 from the admin group's
\* onBeforeHandle (authentication), else the handler's 200.
AdminStatus(limitRes, authHeader, queryAuth) ==
  IF ~limitRes.allowed THEN 429
  ELSE IF Unauthorized(TokenOf(authHeader, queryAuth), AdminSecret) THEN 401
  ELSE 200

\* What the handler of the route applies when it runs.
AdminApplied(route, body, status) ==
  IF status # 200 THEN "none"
  ELSE IF route.method = "PUT" THEN "config" ELSE body.action

\* The rest of an /admin request, given the limiter's outcome o, the status
\* and what the handler applies.
AdminAnswer(route, authHeader, queryAuth, body, afterOnEarly, o, status, applied) ==
  /\ o.ok
  /\ rlRows' = IF applied = "reset_ratelimit" THEN Reset(o.rows, body.ip) ELSE o.rows
  /\ rlHits' = o.hits
  /\ rlLast' = o.last
  /\ rlEnabled' = IF applied = "config" THEN body.enabled ELSE rlEnabled
  /\ UNCHANGED <<rlRule, rlNow>>
  /\ adminResp' = [n |-> adminResp.n + 1, endpoint |-> EndpointKey(route),
                   authHeader |-> authHeader, queryAuth |-> queryAuth,
                   status |-> status, handlerRan |-> status = 200, applied |-> applied]
  /\ requestLogs' = LogAll(requestLogs, route.pathname, rlNow,
                           (IF status = 429 THEN <<429>> ELSE <<>>)
                           \o (IF status = 200 \/ afterOnEarly THEN <<status>> ELSE <<>>))
  /\ UNCHANGED <<metricsRollup, rollObs, httpResp, envAdminSecret>>
  /\ UNCHANGED <<storeVars, hubVars, syncVars, connVars, clockVars, healthVars, signVars, actionVars, configVars, normVars, clientVars, histVars, periodicVars>>

\* One /admin request: the app's onBeforeHandle (rate limiting), the admin
\* group's onBeforeHandle (authentication), the route handler and
\* onAfterHandle.  afterOnEarly: whether the framework still runs
\* onAfterHandle when an onBeforeHandle hook has answered the request.
AdminRequest(ip, route, authHeader, queryAuth, body, afterOnEarly) ==
  /\ adminResp.n < MaxAdminRequests
  /\ LET o == CheckOutcome(ip, EndpointKey(route))
         status == AdminStatus(o.last, authHeader, queryAuth)
     IN AdminAnswer(route, authHeader, queryAuth, body, afterOnEarly, o, status,
                    AdminApplied(route, body, status))

\* The rule the admin endpoints hold in the runs of SpecAdmin.
AdminRule == [maxRequests |-> 1, windowSeconds |-> 2]

InitAdminSpec ==
  /\ InitStoreHub
  /\ InitSync
  /\ deployment = "api"
  /\ rlEnabled \in BOOLEAN
  /\ rlRule = AdminRule
  /\ rlNow = 0
  /\ rlRows = [k \in RlKeys |-> NoRow]
  /\ rlHits = [k \in RlKeys |-> [window |-> 0, n |-> 0]]
  /\ rlLast = NoCheck
  /\ InitConn
  /\ feedStates = [f \in Feeds |-> "connecting"]
  /\ parserTimeoutSeconds = 60
  /\ healthResp = NoHealthResp
  /\ envelopes = {}
  /\ InitMetrics
  /\ InitHttp
  /\ envAdminSecret \in {"", "s3cret"}
  /\ InitExt

NextAdmin ==
  \/ \E ip \in HttpIps, route \in AdminRoutes, cred \in Credentials,
        body \in AdminBodies, afterOnEarly \in BOOLEAN :
        AdminRequest(ip, route, cred.authHeader, cred.queryAuth, body, afterOnEarly)
  \/ HttpTick

SpecAdmin == InitAdminSpec /\ [][NextAdmin]_vars

\* The token a request carries: the Bearer token of its Authorization
\* header, else its ?auth query value.
TokenCarried(r) ==
  IF r.authHeader.present /\ r.authHeader.prefix7 = "Bearer "
  THEN <<"string", r.authHeader.rest>> ELSE r.queryAuth

\* The admin secret of the deployment.
SecretInForce ==
  <<"string", IF envAdminSecret = "" THEN "change-this-secret" ELSE envAdminSecret>>

\* Configuration and limiter rows are as they were, up to the rows the
\* limiter itself writes.
NothingApplied == rlEnabled' = rlEnabled /\ \A k \in RlKeys : rlRows[k].present => rlRows'[k].present

\* C20 (as stated): an /admin request whose token differs from the admin
\* secret is answered 401 and its handler does not run, so no configuration
\* update and no admin action is applied; only a request with the exact
\* secret reaches the handler.
C20_AdminRequiresSecret ==
  [][adminResp'.n = adminResp.n + 1 =>
       /\ TokenCarried(adminResp') # SecretInForce =>
            /\ adminResp'.status = 401
            /\ ~adminResp'.handlerRan
            /\ NothingApplied
       /\ adminResp'.handlerRan => TokenCarried(adminResp') = SecretInForce]_vars

\* C20 (amended): such a request is answered 401, or 429 when the rate
\* limiter denies it before the token is looked at; in both cases its handler
\* does not run and nothing is applied; only a request with the exact secret
\* reaches the handler.
C20_AdminRequiresSecretOr429 ==
  [][adminResp'.n = adminResp.n + 1 =>
       /\ TokenCarried(adminResp') # SecretInForce =>
            /\ adminResp'.status = IF rlLast'.allowed THEN 401 ELSE 429
            /\ ~adminResp'.handlerRan
            /\ NothingApplied
       /\ adminResp'.handlerRan => TokenCarried(adminResp') = SecretInForce]_vars

\* A request with a wrong Bearer token and the secret in ?auth was answered
\* 401 while the limiter's table holds a row and the limiter is enabled.
C20_Witness ==
  /\ adminResp.n > 0
  /\ adminResp.authHeader.present
  /\ TokenCarried(adminResp) # SecretInForce
  /\ adminResp.queryAuth = SecretInForce
  /\ adminResp.status = 401
  /\ rlEnabled
  /\ \E k \in RlKeys : rlRows[k].present

(***************************************************************************)
(* Signer                                                                  *)
(***************************************************************************)
\* Signer.sign(ev) is called and resolves.
SignEvent(ev) ==
  /\ Cardinality(envelopes \cup {SignAt(ev, rlNow)}) <= MaxEnvelopes
  /\ envelopes' = envelopes \cup {SignAt(ev, rlNow)}
  /\ UNCHANGED <<storeVars, hubVars, syncVars, rlVars, connVars, clockVars, healthVars, metricsVars, httpVars, adminVars, actionVars, configVars, normVars, clientVars, histVars, periodicVars>>

NextSign ==
  \/ \E ev \in EventRecords : SignEvent(ev)
  \/ Tick

SpecSign == Init /\ [][NextSign]_vars

PayloadStrings == {JsonStringify(ev) : ev \in EventRecords}

DepsParserHeartbeat ==
  IF deployment = "api" THEN NoHeartbeat ELSE parserHeartbeat

\* getHeartbeatAge(hb) < parserTimeoutSeconds; the age is Infinity without
\* a heartbeat.
ParserHealthy(hb) ==
  hb.present /\ rlNow - hb.lastParseTime < parserTimeoutSeconds

\* HealthMonitor.checkHealth
CheckHealth(hb, fs, countThrows) ==
  LET parserHealthy == ParserHealthy(hb)
      feedsHealthy == fs["wolfx"] = "connected" \/ fs["p2p"] = "connected"
      databaseHealthy == ~countThrows
  IN [healthy |-> parserHealthy /\ feedsHealthy /\ databaseHealthy,
      parser |-> parserHealthy, feeds |-> feedsHealthy, database |-> databaseHealthy]

\* GET /health (status 200 or 503, body the health object) and GET /status
\* (status 200, body status "ok" or "degraded").
HealthRequest(route, countThrows) ==
  /\ LET h == CheckHealth(DepsParserHeartbeat, feedStates, countThrows) IN
       healthResp' = [flip |-> ~healthResp.flip, route |-> route,
                      httpStatus |-> IF route = "health"
                                     THEN (IF h.healthy THEN 200 ELSE 503)
                                     ELSE 200,
                      status |-> IF route = "status"
                                 THEN (IF h.healthy THEN "ok" ELSE "degraded")
                                 ELSE "none",
                      healthy |-> h.healthy, parser |-> h.parser, feeds |-> h.feeds,
                      database |-> h.database, dbThrew |-> countThrows]
  /\ UNCHANGED <<feedStates, parserTimeoutSeconds>>
  /\ UNCHANGED <<storeVars, hubVars, syncVars, rlVars, connVars, clockVars, signVars, metricsVars, httpVars, adminVars, actionVars, configVars, normVars, clientVars, histVars, periodicVars>>

\* onStatus callback of the FeedManager: the copy of a connector's state is
\* replaced on every updateState.
OnStatus(f, st) ==
  /\ feedStates' = [feedStates EXCEPT ![f] = st]
  /\ UNCHANGED <<parserTimeoutSeconds, healthResp>>
  /\ UNCHANGED <<storeVars, hubVars, syncVars, rlVars, connVars, clockVars, signVars, metricsVars, httpVars, adminVars, actionVars, configVars, normVars, clientVars, histVars, periodicVars>>

\* POST /v1/events with a heartbeat and no events, run to its response.
HeartbeatPost(hb) ==
  /\ hb.lastParseTime <= rlNow
  /\ LET body == [heartbeat |-> hb, events |-> <<>>] IN
       IF deployment = "api"
       THEN SetIngestState(PostTail(HeartbeatIfPresent(IngestState, body), body).state)
       ELSE SetIngestState(MonoTail(MonoHeartbeat(IngestState, body), body).state)
  /\ UNCHANGED <<deployment, pc, reqBody, reqCred, resp>>
  /\ UNCHANGED <<storeVars, hubVars, rlVars, connVars, clockVars, healthVars, signVars, metricsVars, httpVars, adminVars, actionVars, configVars, normVars, clientVars, histVars, periodicVars>>

TimeoutChoices == {2, 3}
HealthHeartbeats == [present : {TRUE}, kmaConnection : BOOLEAN, error : {"null"},
                     lastParseTime : 0..MaxNow]

InitHealthSpec ==
  /\ InitStoreHub
  /\ InitSync
  /\ InitRL
  /\ InitConn
  /\ deployment \in {"api", "monolith"}
  /\ feedStates = [f \in Feeds |-> "connecting"]
  /\ parserTimeoutSeconds \in TimeoutChoices
  /\ healthResp = NoHealthResp
  /\ envelopes = {}
  /\ InitMetrics
  /\ InitHttp
  /\ InitEnv
  /\ InitExt

NextHealth ==
  \/ \E r \in {"health", "status"}, t \in BOOLEAN : HealthRequest(r, t)
  \/ \E f \in Feeds, st \in {"connecting", "connected", "disconnected"} : OnStatus(f, st)
  \/ \E hb \in HealthHeartbeats : HeartbeatPost(hb)
  \/ Tick

SpecHealth == InitHealthSpec /\ [][NextHealth]_vars

\* healthy as the claim defines it, from the heartbeat the poller stored.
ExpectedHealthy(countThrows) ==
  /\ parserHeartbeat.present
  /\ rlNow - parserHeartbeat.lastParseTime < parserTimeoutSeconds
  /\ \E f \in Feeds : feedStates[f] = "connected"
  /\ ~countThrows

\* C14: GET /health answers 200 iff healthy and 503 otherwise, and GET
\* /status reports ok iff healthy, with healthy = parser /\ feeds /\ database
\* computed from the stored heartbeat, the connectors' status and count().
C14_HealthIffHealthy ==
  [][healthResp'.flip # healthResp.flip =>
       LET exp == ExpectedHealthy(healthResp'.dbThrew) IN
         /\ healthResp'.route = "health" =>
               healthResp'.httpStatus = (IF exp THEN 200 ELSE 503)
         /\ healthResp'.route = "status" =>
               healthResp'.status = (IF exp THEN "ok" ELSE "degraded")]_vars

(***************************************************************************)
(* WebSocketConnector                                                      *)
(***************************************************************************)
Min(a, b) == IF a < b THEN a ELSE b

\* this.backoff = Math.min(this.backoff * 2, MAX_BACKOFF_MS)
NextBackoffUncapped(backoff) == backoff * 2

NextBackoff(backoff) == Min(backoff * 2, MAX_BACKOFF_MS)

\* scheduleReconnect() that sets no timer.
ScheduleReconnectNever(c) == c

\* scheduleReconnect(): nothing when a timer is pending; else the timer is
\* set with the current backoff and the backoff is doubled up to the cap.
ScheduleReconnect(c) ==
  IF c.reconnectTimer # 0
  THEN c
  ELSE [c EXCEPT !.reconnectTimer = c.backoff,
                 !.backoff = NextBackoff(c.backoff),
                 !.delays = Append(c.delays, c.backoff)]

\* cleanupSocket(): close the held socket, drop it, clear both timers.
CleanupSocket(c) ==
  [c EXCEPT !.socket = 0, !.inactivityTimer = FALSE, !.pingTimer = FALSE,
            !.watchdogs = IF c.inactivityTimer THEN @ - 1 ELSE @, !.idle = 0]

INACTIVITY_TIMEOUT_MS == 120000

\* resetInactivityTimer() without the clearTimeout.
ResetInactivityTimerNoClear(c) ==
  [c EXCEPT !.inactivityTimer = TRUE, !.idle = 0, !.watchdogs = @ + 1]

\* resetInactivityTimer(): the armed timeout is cleared, a new one is set.
ResetInactivityTimer(c) ==
  [c EXCEPT !.inactivityTimer = TRUE, !.idle = 0,
            !.watchdogs = (IF c.inactivityTimer THEN @ - 1 ELSE @) + 1]

\* socket.close() on the held socket: its close event is still to come.
SocketsLeftOpen(c, ss) == ss

SocketsAfterCleanup(c, ss) ==
  IF c.socket # 0 /\ ss[c.socket] \in {"connecting", "open"}
  THEN [ss EXCEPT ![c.socket] = "closing"]
  ELSE ss

\* handleClose(reason)
HandleClose(c, reason) ==
  LET c1 == IF c.connectedAt # -1 /\ c.status = "connected"
            THEN [c EXCEPT !.totalUptime = c.totalUptime + (nowMs - c.connectedAt)]
            ELSE c
      c2 == CleanupSocket(c1)
      c3 == [c2 EXCEPT !.status = "disconnected", !.lastError = reason,
                       !.disconnectedAt = nowMs]
  IN ScheduleReconnect(c3)

\* The open listener counting every open as a reconnect.
OnOpenAlwaysCounts(c) ==
  ResetInactivityTimer(
  [c EXCEPT !.backoff = BASE_BACKOFF_MS,
            !.status = "connected", !.lastError = "null",
            !.connectedAt = nowMs, !.lastHeartbeat = TRUE,
            !.reconnectCount = c.reconnectCount + 1,
            !.pingTimer = TRUE,
            !.delays = <<>>, !.opens = c.opens + 1,
            !.freshOpen = IF c.opens = 0 THEN c.disconnectedAt = -1
                          ELSE c.freshOpen])

\* The open listener.
OnOpen(c) ==
  ResetInactivityTimer(
  [c EXCEPT !.backoff = BASE_BACKOFF_MS,
            !.status = "connected", !.lastError = "null",
            !.connectedAt = nowMs, !.lastHeartbeat = TRUE,
            !.reconnectCount = IF c.disconnectedAt # -1 THEN c.reconnectCount + 1
                               ELSE c.reconnectCount,
            !.pingTimer = TRUE,
            !.delays = <<>>, !.opens = c.opens + 1,
            !.freshOpen = IF c.opens = 0 THEN c.disconnectedAt = -1
                          ELSE c.freshOpen])

\* The message listener up to onMessage: state update, watchdog re-armed.
OnMessage(c) ==
  ResetInactivityTimer(
  [c EXCEPT !.lastMessage = TRUE, !.lastHeartbeat = TRUE, !.lastError = "null"])

\* connect(): status connecting, then new WebSocket(url), which either
\* yields socket number nAttempts + 1 with the four listeners attached, or
\* throws: status disconnected, lastError, scheduleReconnect.
Connect(c, throws) ==
  /\ nAttempts < MaxAttempts
  /\ nAttempts' = nAttempts + 1
  /\ IF throws
     THEN /\ conn' = ScheduleReconnect([c EXCEPT !.status = "disconnected",
                                                 !.lastError = "connect_failed"])
          \* no socket exists for this attempt: its number emits no event
          /\ sockState' = [sockState EXCEPT ![nAttempts + 1] = "closed"]
     ELSE /\ conn' = [c EXCEPT !.status = "connecting", !.socket = nAttempts + 1]
          /\ sockState' = [sockState EXCEPT ![nAttempts + 1] = "connecting"]

OtherVarsOfConn == <<storeVars, hubVars, syncVars, rlVars, clockVars, healthVars, signVars, metricsVars, httpVars, adminVars, actionVars, configVars, normVars, clientVars, histVars, periodicVars>>

\* start(), called once by FeedManager.startAll.
Start(throws) ==
  /\ ~conn.started
  /\ conn.status # "connected"
  /\ Connect([conn EXCEPT !.started = TRUE], throws)
  /\ UNCHANGED OtherVarsOfConn

\* The reconnect timer fires: reconnectTimer = null; connect().
ReconnectTimerFires(throws) ==
  /\ conn.reconnectTimer # 0
  /\ Connect([conn EXCEPT !.reconnectTimer = 0], throws)
  /\ UNCHANGED OtherVarsOfConn

\* Socket s opens.
SocketOpen(s) ==
  /\ sockState[s] = "connecting"
  /\ sockState' = [sockState EXCEPT ![s] = "open"]
  /\ conn' = OnOpen(conn)
  /\ UNCHANGED nAttempts
  /\ UNCHANGED OtherVarsOfConn

\* A frame arrives on socket s.  A heartbeat frame is answered by send(pong);
\* when that send throws, send() calls handleClose("send_error").
SocketMessage(s, heartbeat, sendThrows) ==
  /\ sockState[s] = "open"
  /\ sendThrows => heartbeat
  /\ LET c == OnMessage(conn) IN
       IF heartbeat /\ sendThrows /\ c.socket # 0
       THEN /\ conn' = HandleClose(c, "send_error")
            /\ sockState' = SocketsAfterCleanup(c, sockState)
       ELSE /\ conn' = c
            /\ UNCHANGED sockState
  /\ UNCHANGED nAttempts
  /\ UNCHANGED OtherVarsOfConn

\* Socket s emits error: handleClose("error").  Its close event follows.
SocketError(s) ==
  /\ sockState[s] \in {"connecting", "open"}
  /\ conn' = HandleClose(conn, "error")
  /\ sockState' = [SocketsAfterCleanup(conn, sockState) EXCEPT ![s] = "closing"]
  /\ UNCHANGED nAttempts
  /\ UNCHANGED OtherVarsOfConn

\* Socket s emits close: handleClose("closed").
SocketClose(s) ==
  /\ sockState[s] \in {"connecting", "open", "closing"}
  /\ conn' = HandleClose(conn, "closed")
  /\ sockState' = [SocketsAfterCleanup(conn, sockState) EXCEPT ![s] = "closed"]
  /\ UNCHANGED nAttempts
  /\ UNCHANGED OtherVarsOfConn

\* The inactivity watchdog fires: lastError, handleClose("inactivity").
InactivityTimeout ==
  /\ conn.inactivityTimer
  /\ conn' = HandleClose(conn, "inactivity")
  /\ sockState' = SocketsAfterCleanup(conn, sockState)
  /\ UNCHANGED nAttempts
  /\ UNCHANGED OtherVarsOfConn

\* The keepalive interval fires: send(ping); a throwing send closes.
PingTick(sendThrows) ==
  /\ conn.pingTimer
  /\ IF sendThrows /\ conn.socket # 0
     THEN /\ conn' = HandleClose(conn, "send_error")
          /\ sockState' = SocketsAfterCleanup(conn, sockState)
     ELSE UNCHANGED <<conn, sockState>>
  /\ UNCHANGED nAttempts
  /\ UNCHANGED OtherVarsOfConn

InitConnector ==
  /\ InitStoreHub
  /\ InitSync
  /\ InitRL
  /\ InitConn
  /\ InitHealth
  /\ deployment = "api"

NextConn ==
  \/ \E t \in BOOLEAN : Start(t)
  \/ \E t \in BOOLEAN : ReconnectTimerFires(t)
  \/ \E s \in SocketIds : SocketOpen(s)
  \/ \E s \in SocketIds, h \in BOOLEAN, t \in BOOLEAN : SocketMessage(s, h, t)
  \/ \E s \in SocketIds : SocketError(s)
  \/ \E s \in SocketIds : SocketClose(s)
  \/ InactivityTimeout
  \/ \E t \in BOOLEAN : PingTick(t)

SpecConn == InitConnector /\ [][NextConn]_vars

\* Time passes between two handlers.
Durations == {2000, 5000, 10000}

ClockTick(d) ==
  /\ nowMs + d <= MaxClock
  /\ nowMs' = nowMs + d
  /\ connectedTime' = IF conn.status = "connected" THEN connectedTime + d
                      ELSE connectedTime
  /\ UNCHANGED <<storeVars, hubVars, syncVars, rlVars, connVars, healthVars, signVars, metricsVars, httpVars, adminVars, actionVars, configVars, normVars, clientVars, histVars, periodicVars>>

\* The connector with its clock running.
NextTimed ==
  \/ NextConn /\ nAttempts' <= MaxTimedAttempts
  \/ \E d \in Durations : ClockTick(d)

SpecTimed == InitConnector /\ [][NextTimed]_vars

(***************************************************************************)
(* Claims on the connector (under SpecConn)                                *)
(***************************************************************************)
RECURSIVE ExpectedDelay(_)
ExpectedDelay(i) ==
  IF i = 1 THEN 2000
  ELSE IF ExpectedDelay(i - 1) * 2 < 60000 THEN ExpectedDelay(i - 1) * 2 ELSE 60000

\* C10: the reconnect delays scheduled since the last socket open (or since
\* construction) are 2, 4, 8, 16, 32, 60, 60, ... seconds.
C10_BackoffSequence ==
  \A i \in 1..Len(conn.delays) : conn.delays[i] = ExpectedDelay(i)

\* Seven attempts in a row failed after a session that had opened: the last
\* two delays are at the cap.
C10_Witness ==
  /\ Len(conn.delays) = 7
  /\ conn.delays[5] = 32000
  /\ conn.delays[6] = 60000
  /\ conn.delays[7] = 60000

StatusStep(from, to) == conn.status = from /\ conn'.status = to

\* C11 as stated: the status never goes connecting -> disconnected,
\* disconnected -> connected or connected -> connecting.
C11_StatusCycle ==
  [][/\ ~StatusStep("connecting", "disconnected")
     /\ ~StatusStep("disconnected", "connected")
     /\ ~StatusStep("connected", "connecting")]_vars

\* C11 amended: the status never goes disconnected -> connected or
\* connected -> connecting; connecting -> disconnected happens exactly when
\* a connection attempt fails before its socket opened.
C11_StatusCycleWithFailedAttempt ==
  [][/\ ~StatusStep("disconnected", "connected")
     /\ ~StatusStep("connected", "connecting")
     /\ StatusStep("connecting", "disconnected") =>
           (conn'.lastError \in {"connect_failed", "error", "closed"})]_vars

\* A full cycle: the connector was connected, was disconnected, and is
\* connecting again.
C11_Witness ==
  /\ conn.status = "connecting"
  /\ conn.connectedAt # -1 /\ conn.disconnectedAt # -1
  /\ conn.socket # 0

\* C12 as stated: reconnectCount is the number of opens that followed a
\* recorded disconnection, and totalUptime is the total time the connector
\* has spent connected (15000 after open, 10 s, close, 2 s, open, 5 s).
C12_UptimeIsConnectedTime ==
  /\ conn.reconnectCount = conn.opens - (IF conn.freshOpen THEN 1 ELSE 0)
  /\ conn.totalUptime = connectedTime

\* The time of the session that is still open.
LiveSession == IF conn.status = "connected" THEN nowMs - conn.connectedAt ELSE 0

\* C12 amended: totalUptime is the time spent connected in the sessions
\* that have ended; the session still open is not in it.
C12_UptimeIsEndedSessions ==
  /\ conn.reconnectCount = conn.opens - (IF conn.freshOpen THEN 1 ELSE 0)
  /\ conn.totalUptime = connectedTime - LiveSession

\* open, 10 s, close, 2 s, open, 5 s: connected, one reconnect, 10000 ms of
\* uptime recorded and 15000 ms spent connected.
C12_Witness ==
  /\ nowMs = 17000
  /\ conn.status = "connected"
  /\ conn.opens = 2 /\ conn.reconnectCount = 1
  /\ conn.connectedAt = 12000 /\ conn.disconnectedAt = 10000
  /\ conn.totalUptime = 10000
  /\ connectedTime = 15000

(***************************************************************************)
(* Claims on the store, the ingest pipeline and the hub (under Spec)       *)
(***************************************************************************)

UniqueEventIds ==
  \A r1 \in events, r2 \in events : r1.eventId = r2.eventId => r1 = r2

\* C1: after any sequence of inserts the events table holds at most one row
\* per eventId, and an insert never changes or removes a stored row (first
\* write wins).
C1_FirstWriteWins ==
  /\ []UniqueEventIds
  /\ [][nBatches' # nBatches => \A r \in events : r \in events']_vars

\* A second batch re-delivered the stored event A (with the same or with a
\* changed payload, alone or twice): nothing materialized, the row is the first one.
C1_Witness ==
  /\ nBatches = 2
  /\ insertResult.materialized = 0
  /\ events = {EvA}

\* C2: an event whose eventId was persisted before its batch is never sent
\* to a subscriber again in a signedEvents broadcast.
C2_NoRebroadcast == rebroadcast = {}

\* C3: EventStore.insert returns the number of rows that materialized, i.e.
\* the number of distinct eventIds of the batch not stored before the call.
C3_InsertedIsMaterialized ==
  ~insertResult.threw => insertResult.inserted = insertResult.materialized

IsPrefix(a, b) == Len(a) <= Len(b) /\ SubSeq(b, 1, Len(a)) = a

\* C8: the snapshot { event: latest } is the first frame of every subscriber
\* accepted while the store is non-empty, it is sent by the handshake itself
\* (before any broadcast or ping can reach the subscriber), and no snapshot
\* is ever sent later: a subscriber connected before a batch gets only the
\* broadcast.
C8_SnapshotFirst ==
  /\ [](\A s \in Sockets :
          /\ s \notin accepted => frames[s] = <<>>
          /\ \A i \in 1..Len(frames[s]) : frames[s][i].type = "event" => i = 1)
  /\ [][\A s \in Sockets :
          /\ IsPrefix(frames[s], frames'[s])
          /\ s \in accepted' \ accepted =>
                IF events = {}
                THEN frames'[s] = <<>>
                ELSE \E e \in LatestRows(events) : frames'[s] = <<SnapshotFrame(e)>>]_vars

\* s2 connected to a non-empty store and got the snapshot and then the
\* broadcast; s1 connected to the empty store and got only the broadcast.
C8_Witness ==
  /\ Len(frames["s2"]) = 2
  /\ frames["s2"][1].type = "event"
  /\ frames["s2"][2].type = "signedEvents"
  /\ Len(frames["s1"]) = 1
  /\ frames["s1"][1].type = "signedEvents"

Payloads == {PingFrame} \cup {SignedFrame(b) : b \in Batches}

\* C9: a broadcast sends one payload to every subscriber registered at the
\* call; exactly the subscribers whose send throws are removed, every other
\* one receives the payload and stays registered.
C9_BroadcastIsolation ==
  [][bcSeq' # bcSeq =>
       \E p \in Payloads :
          /\ clients' = clients \ lastFailed'
          /\ \A s \in Sockets :
                frames'[s] = IF s \in clients \ lastFailed'
                             THEN Append(frames[s], p) ELSE frames[s]]_vars

\* A signedEvents broadcast whose send to s1 threw while s2 received it.
C9_Witness ==
  /\ bcSeq = 1
  /\ lastFailed = {"s1"}
  /\ clients = {"s2"}
  /\ Len(frames["s2"]) > Len(frames["s1"])
  /\ frames["s2"][Len(frames["s2"])].type = "signedEvents"

(***************************************************************************)
(* Claims on the sync handshake (under SpecSync)                           *)
(***************************************************************************)
HasKma(h) == reqBody[h].heartbeat.present /\ reqBody[h].heartbeat.kmaConnection

SyncResponses == {h \in Posts : resp[h] = "200 sync"}

\* C4: the first POST whose heartbeat has kmaConnection = true is answered
\* 200 { sync: true } and leaves needsKmaSync false; a later such POST is
\* answered 204.
C4_SyncHandshake ==
  /\ \A h \in Posts :
        (pc[h] = "done" /\ HasKma(h) /\ \A g \in Posts \ {h} : ~HasKma(g))
          => (resp[h] = "200 sync" /\ ~needsKmaSync)
  /\ \A g \in Posts, h \in Posts :
        (g < h /\ pc[g] = "done" /\ HasKma(g) /\ pc[h] = "done" /\ HasKma(h)
           /\ reqBody[g].events = <<>> /\ reqBody[h].events = <<>>)
          => (resp[g] = "200 sync" /\ resp[h] = "204")

\* C5: { sync: true } is answered at most once, only to a submission whose
\* heartbeat has kmaConnection = true and in the very step that finds the
\* flag set and clears it; only such a submission clears the flag, and the
\* flag never becomes true again.
C5_OneShotSync ==
  /\ [](Cardinality(SyncResponses) <= 1 /\ \A h \in SyncResponses : HasKma(h))
  /\ [][/\ ~needsKmaSync => ~needsKmaSync'
        /\ (needsKmaSync /\ ~needsKmaSync')
              => \E h \in Posts : pc'[h] # pc[h] /\ reqBody'[h].heartbeat.present
                                  /\ reqBody'[h].heartbeat.kmaConnection
        /\ \A h \in Posts : (resp[h] = "none" /\ resp'[h] = "200 sync")
              => (needsKmaSync /\ ~needsKmaSync')]_vars

\* Two submissions with kmaConnection = true overlapped: the first suspended
\* on its events while the second ran to its response and took the signal.
C5_Witness ==
  /\ pc[1] = "done" /\ pc[2] = "done"
  /\ HasKma(1) /\ HasKma(2)
  /\ reqBody[1].events # <<>>
  /\ resp[2] = "200 sync"
  /\ resp[1] = "204"

\* C21: a POST /v1/events that does not carry the poller's credential
\* changes neither the event store, the heartbeat snapshot, the parser-error
\* ring nor the sync flag, and starts no broadcast.
C21_UnauthenticatedPostChangesNothing ==
  [][\A h \in Posts :
       (pc[h] = "idle" /\ pc'[h] # "idle" /\ ~reqCred'[h])
       => /\ events' = events
          /\ parserHeartbeat' = parserHeartbeat
          /\ parserErrorHistory' = parserErrorHistory
          /\ needsKmaSync' = needsKmaSync
          /\ tasks' = tasks
          /\ frames' = frames]_vars

(***************************************************************************)
(* Admin actions on the feed connectors                                    *)
(***************************************************************************)
MaxFeedSockets == 2
MaxActions == 2

\* The methods class FeedManager defines.
FeedManagerMethods ==
  {"startAll", "fetchP2pHistory", "getStates", "handleWolfxMessage", "handleP2pMessage"}

\* typeof feedManager[name] === "function"
IsFunction(name) == name \in FeedManagerMethods

\* AdminActionRequests: the action and params.feed.
AdminActions ==
  {[action |-> "reconnect_feed", feed |-> Str("wolfx")],
   [action |-> "reconnect_feed", feed |-> Str("p2p")],
   [action |-> "reconnect_feed", feed |-> Undefined],
   [action |-> "restart", feed |-> Undefined]}

\* The AdminActionResponse of handleAction for reconnect_feed and for an
\* action the switch does not know.
ActionResponse(action) ==
  IF action.action = "reconnect_feed"
  THEN IF action.feed = Undefined
       THEN [success |-> FALSE, message |-> "Feed parameter required"]
       ELSE IF IsFunction("reconnect")
       THEN [success |-> TRUE, message |-> "Reconnecting feed"]
       ELSE [success |-> FALSE, message |-> "Feed manager not available"]
  ELSE [success |-> FALSE, message |-> "Unknown action"]

\* handleAction(action, feedManager): none of the branches that can run
\* calls into a connector.
HandleAction(action) ==
  /\ actionResp.n < MaxActions
  /\ actionResp' = [n |-> actionResp.n + 1, action |-> action.action,
                    feed |-> action.feed,
                    success |-> ActionResponse(action).success,
                    message |-> ActionResponse(action).message]
  /\ UNCHANGED feedConn

\* connect() of one connector: status connecting and a new socket held.
FeedConnect(c) ==
  [c EXCEPT !.status = "connecting", !.socket = c.created + 1,
            !.created = c.created + 1]

\* startAll(): start() of both connectors.
StartAll ==
  /\ \A f \in Feeds : ~feedConn[f].started
  /\ feedConn' = [f \in Feeds |-> FeedConnect([feedConn[f] EXCEPT !.started = TRUE])]
  /\ UNCHANGED actionResp

\* The open listener of the held socket.
FeedOpen(f) ==
  /\ feedConn[f].socket # 0
  /\ feedConn[f].status = "connecting"
  /\ feedConn' = [feedConn EXCEPT ![f].status = "connected"]
  /\ UNCHANGED actionResp

\* The close listener of the held socket: handleClose drops the socket and
\* scheduleReconnect arms the timer unless one is pending.
FeedClose(f) ==
  /\ feedConn[f].socket # 0
  /\ feedConn' = [feedConn EXCEPT ![f].status = "disconnected", ![f].socket = 0,
                                  ![f].reconnectTimer = TRUE]
  /\ UNCHANGED actionResp

\* The reconnect timer's callback.
FeedTimerFires(f) ==
  /\ feedConn[f].reconnectTimer
  /\ feedConn[f].created < MaxFeedSockets
  /\ feedConn' = [feedConn EXCEPT ![f] = FeedConnect([@ EXCEPT !.reconnectTimer = FALSE])]
  /\ UNCHANGED actionResp

OtherVarsOfAction == <<storeVars, hubVars, syncVars, rlVars, connVars, clockVars, healthVars, signVars, metricsVars, httpVars, adminVars, configVars, normVars, clientVars, histVars, periodicVars>>

InitActionSpec ==
  /\ InitStoreHub
  /\ InitSync
  /\ InitRL
  /\ InitConn
  /\ InitHealth
  /\ deployment = "api"

NextAction ==
  \/ StartAll /\ UNCHANGED OtherVarsOfAction
  \/ \E f \in Feeds : FeedOpen(f) /\ UNCHANGED OtherVarsOfAction
  \/ \E f \in Feeds : FeedClose(f) /\ UNCHANGED OtherVarsOfAction
  \/ \E f \in Feeds : FeedTimerFires(f) /\ UNCHANGED OtherVarsOfAction
  \/ \E action \in AdminActions : HandleAction(action) /\ UNCHANGED OtherVarsOfAction

SpecAction == InitActionSpec /\ [][NextAction]_vars

\* C22: the admin action reconnect_feed with params.feed wolfx or p2p
\* reports success, leaves that connector without its socket and with a
\* reconnect under way, and leaves the other connector as it was.
C22_ReconnectFeedReconnects ==
  [][\A f \in Feeds :
       (actionResp'.n = actionResp.n + 1 /\ actionResp'.action = "reconnect_feed"
          /\ actionResp'.feed = Str(f))
       => /\ actionResp'.success
          /\ feedConn'[f].socket # feedConn[f].socket \/ feedConn[f].socket = 0
          /\ feedConn'[f].reconnectTimer \/ feedConn'[f].created > feedConn[f].created
          /\ \A g \in Feeds \ {f} : feedConn'[g] = feedConn[g]]_vars

(***************************************************************************)
(* ConfigManager                                                           *)
(***************************************************************************)
MaxConfigOps == 3

\* {...a, ...b}
Spread(a, b) ==
  [k \in DOMAIN a \cup DOMAIN b |-> IF k \in DOMAIN b THEN b[k] ELSE a[k]]

Has(obj, key) == key \in DOMAIN obj

ConfigEndpoints == {"GET /v1/events", "PUT /admin/config"}

\* DEFAULT_CONFIG, with two of its thirteen rate-limit rules.
DEFAULT_CONFIG ==
  [metrics |-> [rollupInterval |-> "1m", retentionDays |-> 7,
                rollupRetentionDays |-> 90],
   rateLimit |-> [enabled |-> TRUE,
                  limits |-> [e \in ConfigEndpoints |->
                                IF e = "GET /v1/events"
                                THEN [maxRequests |-> 60, windowSeconds |-> 60]
                                ELSE [maxRequests |-> 30, windowSeconds |-> 60]]],
   monitoring |-> [parserTimeoutSeconds |-> 60, feedTimeoutSeconds |-> 30,
                   cleanupIntervalHours |-> 1]]

\* Environments: each variable is a string, "" when it is not set.
NoEnv == [METRICS_ROLLUP_INTERVAL |-> "", METRICS_RETENTION_DAYS |-> "",
          ROLLUP_RETENTION_DAYS |-> "", RATE_LIMIT_ENABLED |-> ""]

EnvChoices ==
  {NoEnv,
   [METRICS_ROLLUP_INTERVAL |-> "5m", METRICS_RETENTION_DAYS |-> "30",
    ROLLUP_RETENTION_DAYS |-> "", RATE_LIMIT_ENABLED |-> "false"],
   [METRICS_ROLLUP_INTERVAL |-> "2m", METRICS_RETENTION_DAYS |-> "400",
    ROLLUP_RETENTION_DAYS |-> "abc", RATE_LIMIT_ENABLED |-> "TRUE"],
   [METRICS_ROLLUP_INTERVAL |-> "", METRICS_RETENTION_DAYS |-> "0",
    ROLLUP_RETENTION_DAYS |-> "30", RATE_LIMIT_ENABLED |-> "yes"]}

\* parseInt(str, 10) on the strings above; NaN is not finite.
ParseInt(str) ==
  CASE str = "30" -> [finite |-> TRUE, n |-> 30]
    [] str = "400" -> [finite |-> TRUE, n |-> 400]
    [] str = "0" -> [finite |-> TRUE, n |-> 0]
    [] OTHER -> [finite |-> FALSE, n |-> 0]

\* str.toLowerCase() on the strings above.
ToLowerCase(str) == IF str = "TRUE" THEN "true" ELSE str

\* Number.isFinite(r) && r >= 1 && r <= 365
ValidDays(r) == r.finite /\ r.n >= 1 /\ r.n <= 365

\* loadOrInitialize: DEFAULT_CONFIG with the environment's overrides.
WithEnvOverrides(envVars) ==
  LET retention == ParseInt(envVars.METRICS_RETENTION_DAYS)
      rollupRetention == ParseInt(envVars.ROLLUP_RETENTION_DAYS)
  IN [DEFAULT_CONFIG EXCEPT
        !.metrics.rollupInterval =
           IF envVars.METRICS_ROLLUP_INTERVAL \in {"1m", "5m", "15m", "1h"}
           THEN envVars.METRICS_ROLLUP_INTERVAL ELSE @,
        !.metrics.retentionDays = IF ValidDays(retention) THEN retention.n ELSE @,
        !.metrics.rollupRetentionDays =
           IF ValidDays(rollupRetention) THEN rollupRetention.n ELSE @,
        !.rateLimit.enabled =
           IF envVars.RATE_LIMIT_ENABLED # ""
           THEN ToLowerCase(envVars.RATE_LIMIT_ENABLED) = "true" ELSE @]

\* The value column of the app_config row: the text JSON.stringify(config)
\* made, or NULL.
JsonText(config) == [type |-> "text", json |-> config]
SqlNull == [type |-> "null", json |-> DEFAULT_CONFIG]

\* JSON.stringify(this.cache) bound as a statement parameter: the text of a
\* config, and undefined (bound as NULL) while cache is not assigned.
StringifyCache(manager) ==
  IF manager.assigned THEN JsonText(manager.cache) ELSE SqlNull

\* JSON.parse(row.value)
JsonParse(value) == value.json

\* get(): JSON.parse(JSON.stringify(this.cache))
Get(manager) == JsonParse(JsonText(manager.cache))

\* persist(): INSERT OR REPLACE INTO config ... ("app_config", value, now)
Persist(manager) == [present |-> TRUE, value |-> StringifyCache(manager)]

\* Bodies of PUT /admin/config: a Partial<Config> holds only the sections
\* and fields it names.
Partials ==
  {[metrics |-> [retentionDays |-> 14]],
   [rateLimit |-> [enabled |-> FALSE]],
   [rateLimit |-> [limits |-> [e \in {"GET /v1/events"} |-> [maxRequests |-> 5]]]],
   [rateLimit |-> [limits |-> [e \in {"GET /v1/events"} |-> [windowSeconds |-> 10]]]],
   [rateLimit |-> [limits |-> [e \in {"PUT /admin/config"} |->
                                 [maxRequests |-> 1, windowSeconds |-> 2]]]],
   [monitoring |-> [parserTimeoutSeconds |-> 120],
    metrics |-> [rollupInterval |-> "1h"]]}

\* update(partial) up to persist(): the new cache.
Merge(cache, partial) ==
  LET c1 == IF Has(partial, "metrics")
            THEN [cache EXCEPT !.metrics = Spread(@, partial.metrics)] ELSE cache
      c2 == IF Has(partial, "rateLimit") /\ Has(partial.rateLimit, "enabled")
            THEN [c1 EXCEPT !.rateLimit.enabled = partial.rateLimit.enabled] ELSE c1
      c3 == IF Has(partial, "rateLimit") /\ Has(partial.rateLimit, "limits")
            THEN [c2 EXCEPT !.rateLimit.limits = Spread(@, partial.rateLimit.limits)]
            ELSE c2
  IN IF Has(partial, "monitoring")
     THEN [c3 EXCEPT !.monitoring = Spread(@, partial.monitoring)] ELSE c3

\* new ConfigManager(db, envVars) on the store as it is: ensureTable, then
\* loadOrInitialize, whose persist() runs before the constructor assigns
\* this.cache.
Construct(envVars) ==
  /\ cfgObs.n < MaxConfigOps
  /\ cfgEnv' = envVars
  /\ IF cfgRow.present /\ cfgRow.value.type = "text"
     THEN /\ cfgMem' = [assigned |-> TRUE, cache |-> JsonParse(cfgRow.value)]
          /\ cfgRow' = cfgRow
     ELSE /\ cfgRow' = Persist([assigned |-> FALSE, cache |-> DEFAULT_CONFIG])
          /\ cfgMem' = [assigned |-> TRUE, cache |-> WithEnvOverrides(envVars)]
  /\ cfgObs' = [n |-> cfgObs.n + 1, op |-> "construct", partial |-> [none |-> TRUE],
                managers |-> IF cfgObs.managers = 0 THEN 1 ELSE 2]

\* update(partial) of the live manager.
Update(partial) ==
  /\ cfgObs.n < MaxConfigOps
  /\ cfgMem.assigned
  /\ cfgMem' = [cfgMem EXCEPT !.cache = Merge(cfgMem.cache, partial)]
  /\ cfgRow' = Persist(cfgMem')
  /\ cfgObs' = [cfgObs EXCEPT !.n = @ + 1, !.op = "update", !.partial = partial]
  /\ UNCHANGED cfgEnv

OtherVarsOfConfig == <<storeVars, hubVars, syncVars, rlVars, connVars, clockVars, healthVars, signVars, metricsVars, httpVars, adminVars, actionVars, normVars, clientVars, histVars, periodicVars>>

InitConfigSpec ==
  /\ InitStoreHub
  /\ InitSync
  /\ InitRL
  /\ InitConn
  /\ InitHealth
  /\ deployment = "api"

NextConfig ==
  \/ \E envVars \in EnvChoices : Construct(envVars) /\ UNCHANGED OtherVarsOfConfig
  \/ \E partial \in Partials : Update(partial) /\ UNCHANGED OtherVarsOfConfig

SpecConfig == InitConfigSpec /\ [][NextConfig]_vars

\* C23: the environment's overrides are applied only when the store is
\* first initialized: a manager constructed later on the same store returns
\* what the manager before it held, whatever the environment now says.
C23_EnvOnlyOnFirstInit ==
  [][(cfgObs'.n = cfgObs.n + 1 /\ cfgObs'.op = "construct" /\ cfgMem.assigned)
       => Get(cfgMem') = Get(cfgMem)]_vars

\* C24: whenever a manager is live, the persisted row holds the text of
\* what get() returns, so that a manager re-created on the store returns
\* exactly the same config.
C24_PersistedEqualsMemory ==
  cfgMem.assigned =>
    /\ cfgRow.present
    /\ cfgRow.value.type = "text"
    /\ JsonParse(cfgRow.value) = Get(cfgMem)

\* A rate-limit rule table with the fields the partial names written into
\* the rules it names.
LimitsDeepMerged(limits, partialLimits) ==
  [e \in DOMAIN limits \cup DOMAIN partialLimits |->
     IF e \in DOMAIN partialLimits /\ e \in DOMAIN limits
     THEN Spread(limits[e], partialLimits[e])
     ELSE IF e \in DOMAIN partialLimits THEN partialLimits[e] ELSE limits[e]]

\* The config in which exactly the leaf fields the partial names have
\* changed.
DeepMerged(cache, partial) ==
  [metrics |-> IF Has(partial, "metrics")
               THEN Spread(cache.metrics, partial.metrics) ELSE cache.metrics,
   rateLimit |->
     [enabled |-> IF Has(partial, "rateLimit") /\ Has(partial.rateLimit, "enabled")
                  THEN partial.rateLimit.enabled ELSE cache.rateLimit.enabled,
      limits |-> IF Has(partial, "rateLimit") /\ Has(partial.rateLimit, "limits")
                 THEN LimitsDeepMerged(cache.rateLimit.limits, partial.rateLimit.limits)
                 ELSE cache.rateLimit.limits],
   monitoring |-> IF Has(partial, "monitoring")
                  THEN Spread(cache.monitoring, partial.monitoring)
                  ELSE cache.monitoring]

\* C25: update(partial) changes exactly the leaf fields the partial names:
\* the other field of a rule it names in part, the rules of the endpoints it
\* does not mention and every other section stay as they were.
C25_UpdateIsDeepMerge ==
  [][(cfgObs'.n = cfgObs.n + 1 /\ cfgObs'.op = "update")
       => Get(cfgMem') = DeepMerged(Get(cfgMem), cfgObs'.partial)]_vars

(***************************************************************************)
(* P2P feed handler and normalizer                                         *)
(***************************************************************************)
MaxMessages == 2
MaxNormNow == 2

\* A timestamp string, by its parts: the date separator, the character
\* between date and time, the clock reading (minutes) and the offset suffix.
\* text is "ok" for a date-time, else the string itself ("" is the empty
\* string, "undefined" stands for an absent property).
TimeString(sep, tee, clock, off) ==
  [text |-> "ok", sep |-> sep, tee |-> tee, clock |-> clock, off |-> off]
NotATime(text) == [text |-> text, sep |-> "", tee |-> "", clock |-> 0, off |-> ""]
NoTime == NotATime("undefined")

RawTimes ==
  {TimeString("/", " ", 720, ""),        \* 2024/01/01 12:00:00
   TimeString("-", "T", 720, ""),        \* 2024-01-01T12:00:00
   TimeString("-", "T", 720, "+09:00"),  \* 2024-01-01T12:00:00+09:00
   TimeString("/", " ", 720, "+09:00"),  \* 2024/01/01 12:00:00+09:00
   TimeString("-", "T", 180, "Z"),       \* 2024-01-01T03:00:00Z
   TimeString("-", "T", 720, "-05:00"),  \* 2024-01-01T12:00:00-05:00
   NotATime("soon"),
   NoTime}

\* new Date().toISOString() when the wall clock reads now.
NowIso(now) == TimeString("-", "T", 10000 + now, "Z")

\* timeStr.includes("+")
IncludesPlus(ts) == ts.off \in {"+09:00", "-05:00+09:00"}

\* The offset new Date(isoLike) reads, in minutes east of UTC.
OffsetMinutes(off) == IF off = "+09:00" THEN 540 ELSE IF off = "-05:00" THEN -300 ELSE 0

\* new Date(isoLike).getTime() is a number
ParsesAsDate(ts) == ts.text = "ok" /\ ts.tee = "T" /\ ts.off \in {"Z", "+09:00", "-05:00"}

\* date.toISOString()
ToISOString(ts) == TimeString("-", "T", ts.clock - OffsetMinutes(ts.off), "Z")

\* normalizeTime(timeStr)
NormalizeTime(ts, now) ==
  IF ts.text \in {"undefined", ""} THEN NowIso(now)
  ELSE IF ts.tee = "T" /\ (ts.off = "Z" \/ IncludesPlus(ts)) THEN ts
  ELSE LET isoLike == [ts EXCEPT !.sep = IF ts.text = "ok" THEN "-" ELSE @,
                                 !.tee = IF ts.text = "ok" THEN "T" ELSE @,
                                 !.off = IF ~IncludesPlus(ts) /\ ts.off # "Z"
                                         THEN ts.off \o "+09:00" ELSE @]
       IN IF ParsesAsDate(isoLike) THEN ToISOString(isoLike) ELSE NowIso(now)

\* JSON values of the message: null, numbers and strings.
Null == <<"null">>
Num(n) == <<"number", n>>

\* The string a normalized time is.
TimeText(ts) == <<"time", ts>>

\* numeric(value), on null and numbers.
Numeric(value) == IF value[1] = "number" THEN value ELSE Null

\* buildSyntheticId(prefix, ...parts): the parts that are neither null,
\* undefined nor "", as strings (none of them holds whitespace), joined; the
\* clock when none is left.
BuildSyntheticId(prefix, parts, now) ==
  LET normalized == SelectSeq(parts, LAMBDA p : p # Null /\ p # Undefined /\ p # Str(""))
  IN [given |-> "", prefix |-> prefix,
      parts |-> IF normalized # <<>> THEN normalized ELSE <<Num(now)>>]

\* An id the message carries.
GivenId(id) == [given |-> id, prefix |-> "", parts |-> <<>>]

\* Messages of the P2P feed: code, time, id, issue.time, issue.serial,
\* earthquake.magnitude and earthquake.hypocenter.latitude / longitude
\* ("" for an absent string).
P2pCodes == {551, 552, 555, 556, 561, 9611, 5610}

P2pMessage(code, time, id, issueTime, serial, magnitude, latitude) ==
  [code |-> code, time |-> time, id |-> id, issueTime |-> issueTime,
   serial |-> serial, magnitude |-> magnitude, latitude |-> latitude,
   longitude |-> latitude]

P2pMessages ==
  {P2pMessage(code, time, "", NoTime, "", Num(5), Null) :
     code \in P2pCodes, time \in RawTimes}
  \cup {P2pMessage(551, NoTime, id, issueTime, serial, Null, latitude) :
          id \in {"", "abc"}, issueTime \in {NoTime, TimeString("/", " ", 725, "")},
          serial \in {"", "2"}, latitude \in {Null, Num(35)}}

NoMessage == P2pMessage(0, NoTime, "", NoTime, "", Null, Null)

\* normalizeP2pEvent(raw) when the clock reads now, on messages P2PSchema
\* accepts.  The event's fields that depend on the message's time, id and
\* position are kept.
NormalizeP2pEvent(data, now) ==
  IF data.code \in {9611, 555}
  THEN LET time == NormalizeTime(data.time, now) IN
       [eventId |-> IF data.id # "" THEN GivenId(data.id)
                    ELSE BuildSyntheticId("p2p", <<TimeText(time), Str(String(data.code))>>, now),
        source |-> "P2PQUAKE", reportType |-> data.code,
        time |-> time,
        issueTime |-> IF data.code = 9611 /\ data.issueTime.text \notin {"undefined", ""}
                      THEN NormalizeTime(data.issueTime, now) ELSE time,
        receiveTime |-> NowIso(now),
        latitude |-> Null, longitude |-> Null, magnitude |-> Null]
  ELSE LET rawTime == IF data.time.text \notin {"undefined", ""} THEN data.time
                      ELSE data.issueTime
           time == NormalizeTime(rawTime, now)
           latitude == Numeric(data.latitude)
           longitude == Numeric(data.longitude)
           magnitude == Numeric(data.magnitude)
       IN [eventId |-> IF data.id # "" THEN GivenId(data.id)
                       ELSE BuildSyntheticId("p2p",
                              <<TimeText(time), latitude, longitude, magnitude,
                                Num(data.code), Str(data.serial)>>, now),
           source |-> "P2PQUAKE", reportType |-> data.code,
           time |-> time,
           issueTime |-> IF data.issueTime.text \notin {"undefined", ""}
                         THEN NormalizeTime(data.issueTime, now) ELSE NotATime("null"),
           receiveTime |-> NowIso(now),
           latitude |-> latitude, longitude |-> longitude, magnitude |-> magnitude]

\* const ALLOWED_CODES = [551, 552, 556, 561]
ALLOWED_CODES == {551, 552, 556, 561}

\* The codes FeedManager.fetchP2pHistory asks the history API for.
HistoryCodes == {551, 552, 556, 561}

\* handleP2pMessage(data): the filter, the normalizer and options.onEvent.
HandleP2pMessage(data) ==
  /\ normOut.n < MaxMessages
  /\ normIn' = data
  /\ normOut' = [normOut EXCEPT !.n = @ + 1, !.via = "ws",
                                !.emitted = data.code \in ALLOWED_CODES,
                                !.event = NormalizeP2pEvent(data, normOut.now)]

\* One item of fetchP2pHistory: the normalizer and options.onEvent.
FetchP2pHistoryItem(data) ==
  /\ normOut.n < MaxMessages
  /\ data.code \in HistoryCodes
  /\ normIn' = data
  /\ normOut' = [normOut EXCEPT !.n = @ + 1, !.via = "history",
                                !.emitted = TRUE,
                                !.event = NormalizeP2pEvent(data, normOut.now)]

\* Date.now() advancing.
NormTick ==
  /\ normOut.now < MaxNormNow
  /\ normOut' = [normOut EXCEPT !.now = @ + 1]
  /\ UNCHANGED normIn

OtherVarsOfNorm == <<storeVars, hubVars, syncVars, rlVars, connVars, clockVars, healthVars, signVars, metricsVars, httpVars, adminVars, actionVars, configVars, clientVars, histVars, periodicVars>>

InitNormSpec ==
  /\ InitStoreHub
  /\ InitSync
  /\ InitRL
  /\ InitConn
  /\ InitHealth
  /\ deployment = "api"

NextNorm ==
  \/ \E data \in P2pMessages : HandleP2pMessage(data) /\ UNCHANGED OtherVarsOfNorm
  \/ \E data \in P2pMessages : FetchP2pHistoryItem(data) /\ UNCHANGED OtherVarsOfNorm
  \/ NormTick /\ UNCHANGED OtherVarsOfNorm

SpecNorm == InitNormSpec /\ [][NextNorm]_vars

\* A timestamp is UTC ISO-8601: date with dashes, T, and the suffix Z.
IsUtcIso(ts) == ts.text = "ok" /\ ts.sep = "-" /\ ts.tee = "T" /\ ts.off = "Z"

\* The instant a raw timestamp names, read as JST when it has no offset.
InstantOf(ts) == ts.clock - (IF ts.off = "" THEN 540 ELSE OffsetMinutes(ts.off))

\* The raw timestamp the event's time is taken from.
RawTimeOf(data) ==
  IF data.code \in {9611, 555} \/ data.time.text \notin {"undefined", ""}
  THEN data.time ELSE data.issueTime

\* C26: every event a connector hands on has its time, and its issueTime
\* when it has one, in UTC ISO-8601; a timestamp of any accepted format names
\* the same instant after normalization, read as JST when it has no offset.
C26_TimesAreUtc ==
  normOut.emitted =>
    /\ IsUtcIso(normOut.event.time)
    /\ normOut.event.issueTime.text # "null" => IsUtcIso(normOut.event.issueTime)
    /\ RawTimeOf(normIn).text = "ok" =>
         normOut.event.time.clock = InstantOf(RawTimeOf(normIn))

\* C27: normalizing the same record again at another wall-clock instant
\* yields the same eventId, also for a record whose time is missing or
\* unparsable.
C27_SyntheticIdDeterministic ==
  [][(normOut'.n = normOut.n + 1 /\ normOut.n > 0 /\ normIn' = normIn)
       => normOut'.event.eventId = normOut.event.eventId]_vars

\* C28: a P2P message whose code is outside {551, 552, 556, 561, 9611}
\* produces no event; one whose code is in the list, 9611 included, is
\* normalized and handed to ingest.
C28_AllowList ==
  [][(normOut'.n = normOut.n + 1 /\ normOut'.via = "ws")
       => (normOut'.emitted <=> normIn'.code \in {551, 552, 556, 561, 9611})]_vars

RolledOf(e) == {r \in BagToSet(rollObs.logs) : r.endpoint = e}
RolledOfStatus(e, st) == {r \in RolledOf(e) : r.status = st}

\* C30: after performRollup the window holds one requests_total row per
\* (endpoint, status) with that group's count, and one request_duration_avg
\* row per endpoint whose value and count are the average duration and the
\* number of all of the endpoint's requests in the window.
C30_RollupRows ==
  rollObs.n > 0 =>
    \A r \in BagToSet(rollObs.logs) :
      /\ \E t \in metricsRollup :
            /\ t.metric_name = "requests_total"
            /\ t.timestamp = rollObs.window
            /\ t.labels = <<r.endpoint, StatusString(r.status)>>
            /\ t.value = Real(CountRows(rollObs.logs, RolledOfStatus(r.endpoint, r.status)), 1)
      /\ \E a \in metricsRollup :
            /\ a.metric_name = "request_duration_avg"
            /\ a.timestamp = rollObs.window
            /\ a.labels = <<r.endpoint>>
            /\ a.value = Real(SumDuration(rollObs.logs, RolledOf(r.endpoint)),
                              CountRows(rollObs.logs, RolledOf(r.endpoint)))
            /\ a.count = CountRows(rollObs.logs, RolledOf(r.endpoint))

(***************************************************************************)
(* Read client: APIClient.getLatestEvents and its CircuitBreaker           *)
(***************************************************************************)
MaxReads == 6
MaxClientNow == 20000

\* new CircuitBreaker(): { failureThreshold: 3, resetTimeoutMs: 10000 }
failureThreshold == 3
resetTimeoutMs == 10000

ReadIds == 1..2

\* recordSuccess()
RecordSuccess(b) == [b EXCEPT !.failures = 0, !.state = "CLOSED"]

\* recordFailure() of a breaker that needs one failure more to open.
RecordFailureOpensLate(b, now) ==
  [b EXCEPT !.failures = b.failures + 1, !.lastFailureTime = now,
            !.state = IF b.failures + 1 > failureThreshold THEN "OPEN" ELSE @]

\* recordFailure()
RecordFailure(b, now) ==
  [b EXCEPT !.failures = b.failures + 1, !.lastFailureTime = now,
            !.state = IF b.failures + 1 >= failureThreshold THEN "OPEN" ELSE @]

\* getState(): the breaker after the call (the state it returns is its state).
GetState(b, now) ==
  IF b.state = "OPEN" /\ now - b.lastFailureTime >= resetTimeoutMs
  THEN [b EXCEPT !.state = "HALF_OPEN"] ELSE b

\* getLatestEvents() up to its await: OPEN answers from the backup, the other
\* states start fetchFromPrimary.
GetLatestEventsBegin(r) ==
  /\ reads[r] = "idle"
  /\ readObs.n < MaxReads
  /\ LET b == GetState(breaker, clientNow) IN
       /\ breaker' = b
       /\ reads' = [reads EXCEPT ![r] = IF b.state = "OPEN" THEN "idle"
                                        ELSE IF b.state = "HALF_OPEN" THEN "probe"
                                        ELSE "primary"]
       /\ readObs' = [readObs EXCEPT
                        !.n = @ + 1,
                        !.stateSeen = b.state,
                        !.source = IF b.state = "OPEN" THEN "backup" ELSE "pending",
                        !.primaryContacts = IF b.state = "OPEN" THEN @ ELSE @ + 1]
  /\ UNCHANGED clientNow

\* fetchFromPrimary() settles: recordSuccess and the primary's events, or
\* recordFailure and the backup's.
PrimarySettles(r, ok) ==
  /\ reads[r] \in {"primary", "probe"}
  /\ breaker' = IF ok THEN RecordSuccess(breaker) ELSE RecordFailure(breaker, clientNow)
  /\ reads' = [reads EXCEPT ![r] = "idle"]
  /\ readObs' = [readObs EXCEPT
                   !.source = IF ok THEN "primary" ELSE "backup",
                   !.stateSeen = IF reads[r] = "probe" THEN "HALF_OPEN" ELSE "CLOSED",
                   !.consecutiveFailures = IF ok THEN 0 ELSE @ + 1,
                   !.probeSuccesses = IF ~ok THEN 0
                                      ELSE IF reads[r] = "probe" THEN @ + 1 ELSE @]
  /\ UNCHANGED clientNow

\* Date.now() advancing by five seconds.
ClientTick ==
  /\ clientNow + 5000 <= MaxClientNow
  /\ clientNow' = clientNow + 5000
  /\ UNCHANGED <<breaker, reads, readObs>>

OtherVarsOfClient == <<storeVars, hubVars, syncVars, rlVars, connVars, clockVars, healthVars, signVars, metricsVars, httpVars, adminVars, actionVars, configVars, normVars, histVars, periodicVars>>

InitClientSpec ==
  /\ InitStoreHub
  /\ InitSync
  /\ InitRL
  /\ InitConn
  /\ InitHealth
  /\ deployment = "api"

NextClient ==
  \/ \E r \in ReadIds : GetLatestEventsBegin(r) /\ UNCHANGED OtherVarsOfClient
  \/ \E r \in ReadIds, ok \in BOOLEAN : PrimarySettles(r, ok) /\ UNCHANGED OtherVarsOfClient
  \/ ClientTick /\ UNCHANGED OtherVarsOfClient

SpecClient == InitClientSpec /\ [][NextClient]_vars

\* A read was started in this step.
ReadStarted == readObs'.n = readObs.n + 1

\* C31: the breaker is CLOSED until the third consecutive failed primary
\* request (a success resets the count) and OPEN from it on; a read that
\* finds it OPEN, which it is until resetTimeoutMs after the last failure, is
\* served from the backup and does not contact the primary.
C31_BreakerOpensAtThreshold ==
  /\ [](readObs.consecutiveFailures = 0 /\ readObs.probeSuccesses = 0
          => breaker.state = "CLOSED")
  /\ [](breaker.state = "CLOSED" <=> readObs.consecutiveFailures < failureThreshold)
  /\ [][(breaker.state = "CLOSED" /\ breaker'.state = "OPEN")
          => readObs'.consecutiveFailures = failureThreshold]_vars
  /\ [][(ReadStarted /\ breaker.state = "OPEN"
           /\ clientNow - breaker.lastFailureTime < resetTimeoutMs)
          => /\ breaker'.state = "OPEN"
             /\ readObs'.source = "backup"
             /\ readObs'.primaryContacts = readObs.primaryContacts
             /\ reads' = reads]_vars

\* A read was served from the backup because the breaker stood OPEN after
\* three failures in a row.
C31_Witness ==
  /\ breaker.state = "OPEN"
  /\ readObs.consecutiveFailures = 3
  /\ readObs.stateSeen = "OPEN"
  /\ readObs.source = "backup"

\* C32: an opened breaker returns to CLOSED only after several successful
\* probes in a row, never on the strength of one successful request, and a
\* failed probe in HALF_OPEN returns it to OPEN.
C32_SustainedRecovery ==
  /\ [][(breaker.state \in {"OPEN", "HALF_OPEN"} /\ breaker'.state = "CLOSED")
          => readObs'.probeSuccesses >= 2]_vars
  /\ [][(breaker.state = "HALF_OPEN" /\ readObs'.consecutiveFailures > readObs.consecutiveFailures)
          => breaker'.state = "OPEN"]_vars


(***************************************************************************)
(* The reconnect loop (under SpecReconnect)                                *)
(***************************************************************************)
\* Connection attempts in one run of the reconnect loop.
MaxFairAttempts == 3

\* The connector's handlers with the attempts capped.
NextReconnect == NextConn /\ nAttempts' <= MaxFairAttempts

\* setTimeout runs its callback once the delay has passed: a pending
\* reconnect timer fires.
TimerFairness ==
  WF_vars((\E t \in BOOLEAN : ReconnectTimerFires(t)) /\ nAttempts' <= MaxFairAttempts)

SpecReconnect == InitConnector /\ [][NextReconnect]_vars /\ TimerFairness

BecomesDisconnected == conn.status # "disconnected" /\ conn'.status = "disconnected"

ReconnectFired == conn.reconnectTimer # 0 /\ nAttempts' = nAttempts + 1

\* The session's time is added when the connector was connected.
UptimeAccumulated ==
  conn'.totalUptime = conn.totalUptime +
     (IF conn.status = "connected" THEN nowMs - conn.connectedAt ELSE 0)

\* In every state with status disconnected a reconnect timer is pending.
DisconnectedHasTimer == conn.status = "disconnected" => conn.reconnectTimer # 0

\* The timer's callback makes a connection attempt: the connector is
\* connecting with the new socket, or new WebSocket threw and the connector
\* is disconnected again with the next timer pending.
FiredTimerConnects ==
  ReconnectFired =>
    \/ conn'.status = "connecting" /\ conn'.socket = nAttempts + 1
    \/ /\ conn'.status = "disconnected" /\ conn'.lastError = "connect_failed"
       /\ conn'.reconnectTimer # 0

\* A disconnected connector gets its next connection attempt.
AttemptFollows ==
  \A k \in 0..(MaxFairAttempts - 1) :
    (conn.status = "disconnected" /\ nAttempts = k) ~> (nAttempts > k)

\* C33 as stated: whenever the connector becomes disconnected, the session
\* uptime is accumulated, disconnectedAt and lastError are recorded and a
\* reconnect is scheduled; a disconnected connector always has a reconnect
\* timer pending, whose firing makes the next connection attempt, so that
\* no connector is left disconnected without another attempt.
C33_DisconnectRecorded ==
  /\ [][BecomesDisconnected =>
          /\ UptimeAccumulated
          /\ conn'.disconnectedAt = nowMs /\ conn'.lastError # "null"
          /\ conn'.reconnectTimer # 0]_vars
  /\ []DisconnectedHasTimer
  /\ [][FiredTimerConnects]_vars
  /\ AttemptFollows

\* C33 amended: as stated, except that a connection attempt that throws
\* records lastError only and leaves disconnectedAt as it was.
C33_DisconnectRecordedUnlessThrown ==
  /\ [][BecomesDisconnected =>
          /\ UptimeAccumulated
          /\ conn'.lastError # "null"
          /\ conn'.disconnectedAt =
               (IF conn'.lastError = "connect_failed" THEN conn.disconnectedAt ELSE nowMs)
          /\ conn'.reconnectTimer # 0]_vars
  /\ []DisconnectedHasTimer
  /\ [][FiredTimerConnects]_vars
  /\ AttemptFollows

\* The connector was disconnected by a close, its reconnect attempt threw,
\* and the next timer is pending.
C33_Witness ==
  /\ conn.status = "disconnected" /\ conn.lastError = "connect_failed"
  /\ conn.disconnectedAt # -1
  /\ conn.reconnectTimer = 4000
  /\ nAttempts = 2


(***************************************************************************)
(* The inactivity watchdog (under SpecWatchdog)                            *)
(***************************************************************************)
\* Connection attempts in one run, and the longest time without a message.
MaxWatchAttempts == 2
MaxIdle == 180000

Silences == {30000, 60000}

\* Time passes while the watchdog is armed.
WatchTick(d) ==
  /\ conn.inactivityTimer
  /\ conn.idle + d <= MaxIdle
  /\ conn' = [conn EXCEPT !.idle = @ + d]
  /\ UNCHANGED <<sockState, nAttempts>>
  /\ UNCHANGED OtherVarsOfConn

\* The watchdog's timeout runs its callback once its delay has passed.
WatchdogFires ==
  /\ conn.idle >= INACTIVITY_TIMEOUT_MS
  /\ InactivityTimeout

NextWatchdog ==
  \/ /\ \/ \E t \in BOOLEAN : Start(t)
        \/ \E t \in BOOLEAN : ReconnectTimerFires(t)
        \/ \E s \in SocketIds : SocketOpen(s)
        \/ \E s \in SocketIds, h \in BOOLEAN, t \in BOOLEAN : SocketMessage(s, h, t)
        \/ \E s \in SocketIds : SocketError(s)
        \/ \E s \in SocketIds : SocketClose(s)
        \/ \E t \in BOOLEAN : PingTick(t)
     /\ nAttempts' <= MaxWatchAttempts
  \/ WatchdogFires
  \/ \E d \in Silences : WatchTick(d)

SpecWatchdog == InitConnector /\ [][NextWatchdog]_vars /\ WF_vars(WatchdogFires)

\* The step in which the watchdog's callback closed the socket.
ClosedByWatchdog == conn.lastError # "inactivity" /\ conn'.lastError = "inactivity"

\* A frame arrived and the socket survived it.
MessageTaken ==
  /\ \E sk \in SocketIds, h \in BOOLEAN, t \in BOOLEAN : SocketMessage(sk, h, t)
  /\ conn'.socket # 0

\* C34: the watchdog closes the socket only after 120 s without an inbound
\* message, leaving the connector disconnected with a reconnect scheduled;
\* every inbound message re-arms it; at most one watchdog timeout is armed
\* at a time; and 120 s of silence are followed by the close (or by a
\* message that re-arms the watchdog first).
C34_Watchdog ==
  /\ [][ClosedByWatchdog =>
          /\ conn.status = "connected" /\ conn.idle >= INACTIVITY_TIMEOUT_MS
          /\ conn'.status = "disconnected" /\ conn'.socket = 0
          /\ conn'.reconnectTimer # 0
          /\ sockState'[conn.socket] = "closing"]_vars
  /\ [][MessageTaken => conn'.inactivityTimer /\ conn'.idle = 0]_vars
  /\ [](conn.watchdogs = IF conn.inactivityTimer THEN 1 ELSE 0)
  /\ [](conn.status = "connected" => conn.inactivityTimer)
  /\ (conn.inactivityTimer /\ conn.idle >= INACTIVITY_TIMEOUT_MS) ~> (conn.idle = 0)

\* The watchdog closed a session that had taken a message and then was
\* silent for 120 s.
C34_Witness ==
  /\ conn.lastError = "inactivity" /\ conn.status = "disconnected"
  /\ conn.lastMessage /\ conn.opens = 1
  /\ conn.reconnectTimer # 0 /\ conn.watchdogs = 0


(***************************************************************************)
(* Events of replaced sockets (under SpecConn)                             *)
(***************************************************************************)
\* Socket s emits close while the connector holds another socket.
StaleClose(s) == conn.socket # 0 /\ conn.socket # s /\ SocketClose(s)

\* C37: a close event of a socket the connector has replaced leaves the
\* current session alone: the held socket stays held and is not closed, the
\* status, totalUptime, the reconnect timer and the backoff are unchanged.
C37_StaleEventsIgnored ==
  [][\A s \in SocketIds :
       StaleClose(s) =>
         /\ conn'.socket = conn.socket
         /\ sockState'[conn.socket] = sockState[conn.socket]
         /\ conn'.status = conn.status
         /\ conn'.totalUptime = conn.totalUptime
         /\ conn'.reconnectTimer = conn.reconnectTimer
         /\ conn'.backoff = conn.backoff]_vars


(***************************************************************************)
(* Resources held by the connector (under SpecTimed)                       *)
(***************************************************************************)
\* The sockets that are connecting or open.
LiveSockets == {s \in SocketIds : sockState[s] \in {"connecting", "open"}}

\* At most one socket is live, and it is the held one.
OneSocket == LiveSockets \subseteq {conn.socket} /\ Cardinality(LiveSockets) <= 1

\* Ping timer and watchdog are armed only while a socket is held and the
\* status is not disconnected.
TimersNeedSocket ==
  (conn.pingTimer \/ conn.inactivityTimer) =>
     (conn.socket # 0 /\ conn.status # "disconnected")

\* No socket is held while a reconnect timer is pending.
NoSocketWhilePending == conn.reconnectTimer # 0 => conn.socket = 0

\* A pending reconnect timer is not replaced by a second one.
OneReconnectTimer ==
  (conn.reconnectTimer # 0 /\ conn'.reconnectTimer # 0 /\ nAttempts' = nAttempts)
     => (conn'.reconnectTimer = conn.reconnectTimer /\ conn'.backoff = conn.backoff)

\* Socket s emits close after its session was ended by an error event, a
\* send failure or the watchdog.
SecondClose(s) == sockState[s] = "closing" /\ SocketClose(s)

\* The second event of a session adds no uptime and does not double the backoff.
SessionEndsOnce ==
  \A s \in SocketIds :
    SecondClose(s) => (conn'.totalUptime = conn.totalUptime /\ conn'.backoff = conn.backoff)

C40_Resources ==
  /\ [](OneSocket /\ TimersNeedSocket /\ NoSocketWhilePending)
  /\ [][OneReconnectTimer]_vars

\* C40: at most one socket is held and at most one reconnect timer is
\* pending; ping timer and watchdog are armed only while a socket is held,
\* never while disconnected; no socket is held while a reconnect timer is
\* pending; the close event and the error event of one session add its
\* uptime once and double the backoff once.
C40_OneOfEach ==
  /\ C40_Resources
  /\ [][SessionEndsOnce]_vars


(***************************************************************************)
(* FeedManager.fetchP2pHistory (under SpecHistory)                         *)
(***************************************************************************)
\* Items in one history response.
MaxHistory == 3

\* Items of the response: two records the schema accepts and one it rejects.
HistoryItems == {[id |-> "A", time |-> 1, parses |-> TRUE],
                 [id |-> "B", time |-> 2, parses |-> TRUE],
                 [id |-> "", time |-> 0, parses |-> FALSE]}

HistoryResponses == UNION {[1..n -> HistoryItems] : n \in 1..MaxHistory}

\* normalizeP2pEvent(item): null when P2PSchema.safeParse fails.
NormalizeHistoryItem(item) ==
  IF item.parses
  THEN [eventId |-> item.id, source |-> "P2PQUAKE", time |-> item.time, revision |-> 1]
  ELSE NoEvent

\* history.reverse()
Reverse(seq) == [i \in 1..Len(seq) |-> seq[Len(seq) + 1 - i]]

\* The owner of the pipeline tasks the history loop starts.
HistoryOwner == -1

\* The loop without the await: the next item is taken at once.
MayTakeNextNoAwait(waiting) == TRUE

\* `await this.options.onEvent(event)`: the loop takes the next item when
\* the promise of the previous one has resolved.
MayTakeNext(waiting) == ~waiting

OtherVarsOfHistory == <<syncVars, rlVars, connVars, clockVars, healthVars, signVars, metricsVars, httpVars, adminVars, actionVars, configVars, normVars, clientVars, periodicVars>>

\* response.json() resolved with an array.
FetchResponds(h) ==
  /\ histResp = <<>> /\ histLog = <<>>
  /\ histResp' = h
  /\ UNCHANGED <<histPos, histWait, histLog>>
  /\ UNCHANGED <<storeVars, hubVars>>
  /\ UNCHANGED OtherVarsOfHistory

\* One turn of the loop: normalizeP2pEvent, and for an event the call of
\* onEvent up to its suspension.
HistoryStep ==
  /\ MayTakeNext(histWait)
  /\ histPos < Len(histResp)
  /\ LET item == Reverse(histResp)[histPos + 1]
         ev == NormalizeHistoryItem(item)
     IN IF ev = NoEvent
        THEN /\ histLog' = Append(histLog, <<"dropped", item.id>>)
             /\ UNCHANGED <<histWait, storeVars>>
        ELSE /\ HandleIncomingEvents(<<ev>>, HistoryOwner)
             /\ histWait' = (histWait \/ Insert(events, <<ev>>).inserted > 0)
             /\ histLog' = Append(histLog,
                             <<IF Insert(events, <<ev>>).inserted > 0 THEN "insert"
                               ELSE "known", ev.eventId>>)
  /\ histPos' = histPos + 1
  /\ UNCHANGED histResp
  /\ UNCHANGED hubVars
  /\ UNCHANGED OtherVarsOfHistory

\* One turn of the loop in which store.insert throws: handleIncomingEvents
\* catches, its promise resolves.
HistoryStepThrows ==
  /\ MayTakeNext(histWait)
  /\ histPos < Len(histResp)
  /\ LET item == Reverse(histResp)[histPos + 1]
         ev == NormalizeHistoryItem(item)
     IN /\ ev # NoEvent
        /\ HandleIncomingEventsThrows(<<ev>>, 1)
        /\ histLog' = Append(histLog, <<"failed", ev.eventId>>)
  /\ histPos' = histPos + 1
  /\ UNCHANGED <<histResp, histWait>>
  /\ UNCHANGED hubVars
  /\ UNCHANGED OtherVarsOfHistory

\* The signatures resolved: broadcast, backup, and the promise that the
\* loop awaits resolves.
HistoryResume(t, failed) ==
  /\ t.owner = HistoryOwner
  /\ BroadcastSigned(t, failed)
  /\ histWait' = FALSE
  /\ histLog' = Append(histLog, <<"broadcast", t.batch[1].eventId>>)
  /\ UNCHANGED <<histResp, histPos>>
  /\ UNCHANGED OtherVarsOfHistory

InitHistorySpec ==
  /\ InitStoreHub
  /\ InitSync
  /\ InitRL
  /\ InitConn
  /\ InitHealth
  /\ deployment = "api"

NextHistory ==
  \/ \E h \in HistoryResponses : FetchResponds(h)
  \/ HistoryStep
  \/ HistoryStepThrows
  \/ \E t \in BagToSet(tasks), f \in SUBSET {"s1"} : HistoryResume(t, f)
  \/ \E e \in EventRecords \cup {NoEvent} : Handshake("s1", e)
  \/ \E b \in {<<EvB>>} : IngestBatch(b)
  \/ \E t \in BagToSet(tasks), f \in SUBSET {"s1"} : IngestResume(t, f)

SpecHistory == InitHistorySpec /\ [][NextHistory]_vars

\* The entries of the log that stand for an item taken by the loop.
Taken == SelectSeq(histLog, LAMBDA e : e[1] # "broadcast")

\* The items are taken oldest first.
TakenOldestFirst ==
  /\ Len(Taken) = histPos
  /\ \A i \in 1..histPos :
       Taken[i][2] = Reverse(histResp)[i].id

\* An ingest that was begun is finished before anything else happens to
\* the history.
OneAtATime ==
  \A i \in 1..Len(histLog) :
    histLog[i][1] = "insert" =>
      \/ i = Len(histLog) /\ histWait
      \/ i < Len(histLog) /\ histLog[i + 1] = <<"broadcast", histLog[i][2]>>

\* When the loop is through, every item the schema accepts is stored (or
\* its insert threw), and every other item was dropped.
RestIngested ==
  (histResp # <<>> /\ histPos = Len(histResp) /\ ~histWait) =>
    \A i \in 1..Len(histResp) :
      IF histResp[i].parses
      THEN \/ histResp[i].id \in StoredIds(events)
           \/ \E j \in 1..Len(histLog) : histLog[j] = <<"failed", histResp[i].id>>
      ELSE Taken[Len(histResp) + 1 - i] = <<"dropped", histResp[i].id>>

OldErrors(n) == [i \in 1..n |-> [timestamp |-> 0, error |-> "timeout"]]

\* The service after earlier POSTs left the ring empty, one short of full,
\* or full.
InitRing ==
  /\ InitStoreHub
  /\ needsKmaSync = TRUE
  /\ parserHeartbeat = NoHeartbeat
  /\ parserErrorHistory \in {OldErrors(0), OldErrors(MAX_PARSER_ERRORS - 1),
                             OldErrors(MAX_PARSER_ERRORS)}
  /\ pc = [h \in Posts |-> "idle"]
  /\ reqBody = [h \in Posts |-> NoPayload]
  /\ reqCred = [h \in Posts |-> FALSE]
  /\ resp = [h \in Posts |-> "none"]
  /\ InitRL
  /\ InitConn
  /\ InitHealth
  /\ deployment \in {"api", "monolith"}

SpecRing == InitRing /\ [][NextSync]_vars

\* The entries the heartbeat of POST h has in the ring.
EntriesOf(h) ==
  Len(SelectSeq(parserErrorHistory, LAMBDA e : e.timestamp = h))

CarriesError(body) == body.heartbeat.present /\ body.heartbeat.error # "null"

\* A change of the ring puts new entries in front of the old ones.
GrowsAtFront ==
  parserErrorHistory' # parserErrorHistory =>
    \E k \in 1..Len(parserErrorHistory') :
      /\ Len(parserErrorHistory') - k <= Len(parserErrorHistory)
      /\ SubSeq(parserErrorHistory', k + 1, Len(parserErrorHistory')) =
           SubSeq(parserErrorHistory, 1, Len(parserErrorHistory') - k)

\* C36: the ring never holds more than MAX_PARSER_ERRORS entries, the
\* newest first; a POST whose heartbeat carries an error has added exactly
\* one entry, and a POST with no error or no heartbeat has added none.
C36_ErrorRing ==
  /\ [](Len(parserErrorHistory) <= MAX_PARSER_ERRORS)
  /\ [][GrowsAtFront]_vars
  /\ [](\A h \in Posts :
          pc[h] = "done" =>
            EntriesOf(h) = IF CarriesError(reqBody[h]) THEN 1 ELSE 0)


(***************************************************************************)
(* performPeriodicTasks (under SpecPeriodic)                               *)
(***************************************************************************)
\* Seconds of one run after the process start, and request_logs rows written.
MaxPeriodicSpan == 240
MaxPeriodicLogs == 3

\* MetricsCollector.shouldRollup(), times in ms
ShouldRollup(nowMillis, last) == nowMillis - last >= GetRollupIntervalMs

\* MetricsCollector.shouldCleanup()
ShouldCleanup(nowMillis, last) ==
  nowMillis - last >= DEFAULT_CONFIG.monitoring.cleanupIntervalHours * 60 * 60 * 1000

\* RateLimiter.cleanup(): DELETE FROM rate_limits WHERE window_start < now - 3600
CleanupRows(rows, now) ==
  [k \in DOMAIN rows |->
     IF rows[k].present /\ rows[k].window_start < now - 3600 THEN NoRow ELSE rows[k]]

\* DELETE FROM request_logs WHERE timestamp < now - retention
CleanupLogs(logs, now) ==
  LET S == {r \in BagToSet(logs) :
              r.timestamp >= now - DEFAULT_CONFIG.metrics.retentionDays * 86400}
  IN [r \in S |-> logs[r]]

\* DELETE FROM metrics_rollup WHERE timestamp < now - rollupRetention
CleanupRollup(tbl, now) ==
  {r \in tbl : r.timestamp >= now - DEFAULT_CONFIG.metrics.rollupRetentionDays * 86400}

\* The metrics_rollup table after performRollup() at second now.
RolledAt(tbl, logs, now) ==
  LET intervalSeconds == GetRollupIntervalSeconds
      currentWindow == now - (now % intervalSeconds)
  IN RollupLoop(tbl,
                GroupRows(LogsBetween(logs, currentWindow - intervalSeconds, currentWindow)),
                1, currentWindow - intervalSeconds, intervalSeconds)

\* One request through the app: the onRequest hook runs performPeriodicTasks
\* (rollup when due, cleanup when due, the client count once a minute), and
\* the request is logged after the response when logged is TRUE.
PeriodicRequest(logged) ==
  LET now == periodicNow
      nowMillis == periodicNow * 1000
      roll == ShouldRollup(nowMillis, lastRollup)
      clean == ShouldCleanup(nowMillis, lastCleanup)
      rolled == IF roll THEN RolledAt(metricsRollup, requestLogs, now) ELSE metricsRollup
      kept == IF clean THEN CleanupLogs(requestLogs, now) ELSE requestLogs
  IN /\ logged => BagCardinality(requestLogs) < MaxPeriodicLogs
     /\ lastRollup' = IF roll THEN nowMillis ELSE lastRollup
     /\ lastCleanup' = IF clean THEN nowMillis ELSE lastCleanup
     /\ metricsRollup' = IF clean THEN CleanupRollup(rolled, now) ELSE rolled
     /\ rlRows' = IF clean THEN CleanupRows(rlRows, now) ELSE rlRows
     /\ IF nowMillis - lastRollupCheck > 60000
        THEN /\ wsClientHistory' =
                  {m \in wsClientHistory \cup {now - (now % 60)} :
                     clean => m >= now - 86400}
             /\ lastRollupCheck' = nowMillis
        ELSE /\ wsClientHistory' = {m \in wsClientHistory : clean => m >= now - 86400}
             /\ UNCHANGED lastRollupCheck
     /\ requestLogs' =
          IF logged
          THEN kept (+) SetToBag({[timestamp |-> now, endpoint |-> "/health",
                                   status |-> 200, duration_ms |-> 10]})
          ELSE kept
     /\ lastCall' = now
     /\ UNCHANGED <<periodicNow, rollObs>>
     /\ UNCHANGED <<rlEnabled, rlRule, rlNow, rlHits, rlLast>>
     /\ UNCHANGED <<storeVars, hubVars, syncVars, connVars, clockVars, healthVars, signVars, httpVars, adminVars, actionVars, configVars, normVars, clientVars, histVars>>

\* The rollup window of second t.
WindowOf(t) == t - (t % GetRollupIntervalSeconds)

\* Half a minute passes; no rollup window goes by without a request.
PeriodicTick ==
  /\ periodicNow + 30 <= EpochStart + MaxPeriodicSpan
  /\ WindowOf(periodicNow + 30) <= WindowOf(lastCall) + GetRollupIntervalSeconds
  /\ periodicNow' = periodicNow + 30
  /\ UNCHANGED <<lastRollup, lastCleanup, lastRollupCheck, wsClientHistory, lastCall>>
  /\ UNCHANGED <<storeVars, hubVars, syncVars, rlVars, connVars, clockVars, healthVars, signVars, metricsVars, httpVars, adminVars, actionVars, configVars, normVars, clientVars, histVars>>

NextPeriodic ==
  \/ \E logged \in BOOLEAN : PeriodicRequest(logged)
  \/ PeriodicTick

SpecPeriodic == Init /\ [][NextPeriodic]_vars

\* The windows of the run.
PeriodicWindows == {WindowOf(t) : t \in EpochStart..(EpochStart + MaxPeriodicSpan + 1)}

\* The requests logged in window w.
LoggedIn(w) ==
  LET logs == LogsBetween(requestLogs, w, w + GetRollupIntervalSeconds)
  IN CountRows(logs, DOMAIN logs)

\* The sum of the requests_total rows of window w.
RECURSIVE SumValues(_)
SumValues(S) ==
  IF S = {} THEN 0
  ELSE LET r == CHOOSE x \in S : TRUE IN r.value[1] + SumValues(S \ {r})

RolledUp(w) ==
  SumValues({r \in metricsRollup : r.timestamp = w /\ r.metric_name = "requests_total"})

\* C38: with performPeriodicTasks running at least once in every rollup
\* window, every closed window is rolled up: once the window after it is
\* over, the requests_total rows of a window add up to the requests logged
\* in it.
C38_NoWindowSkipped ==
  \A w \in PeriodicWindows :
    w + 2 * GetRollupIntervalSeconds <= WindowOf(periodicNow) =>
      RolledUp(w) = LoggedIn(w)


(***************************************************************************)
(* RateLimiter.cleanup (under SpecCleanup)                                 *)
(***************************************************************************)
\* The last second of the clock in one run.
MaxCleanupNow == 9000

\* Rules an admin can set with PUT /admin/config: no bound on windowSeconds.
CleanupRules == [maxRequests : 1..2, windowSeconds : {1800, 7200}]

\* RateLimiter.cleanup(), called on its own.
Cleanup ==
  /\ rlRows' = CleanupRows(rlRows, rlNow)
  /\ UNCHANGED <<rlEnabled, rlRule, rlNow, rlHits, rlLast>>
  /\ UNCHANGED <<storeVars, hubVars, syncVars, connVars, clockVars, healthVars, signVars, metricsVars, httpVars, adminVars, actionVars, configVars, normVars, clientVars, histVars, periodicVars>>

\* Half an hour passes.
CleanupTick ==
  /\ rlNow + 1800 <= MaxCleanupNow
  /\ rlNow' = rlNow + 1800
  /\ UNCHANGED <<rlEnabled, rlRule, rlRows, rlHits, rlLast>>
  /\ UNCHANGED <<storeVars, hubVars, syncVars, connVars, clockVars, healthVars, signVars, metricsVars, httpVars, adminVars, actionVars, configVars, normVars, clientVars, histVars, periodicVars>>

InitCleanup ==
  /\ InitStoreHub
  /\ InitSync
  /\ deployment = "api"
  /\ rlEnabled = TRUE
  /\ rlRule \in CleanupRules
  /\ rlNow = 0
  /\ rlRows = [k \in RlKeys |-> NoRow]
  /\ rlHits = [k \in RlKeys |-> [window |-> 0, n |-> 0]]
  /\ rlLast = NoCheck
  /\ InitConn
  /\ InitHealth

NextCleanup ==
  \/ \E ip \in Ips, ep \in Endpoints : Check(ip, ep)
  \/ Cleanup
  \/ CleanupTick

SpecCleanup == InitCleanup /\ [][NextCleanup]_vars

\* The row of key k counts the current window.
CurrentRow(k) ==
  rlRows[k].present /\ rlRows[k].window_start = WindowStart(rlNow, rlRule.windowSeconds)

\* C39: whatever rule is configured, no key gets more than maxRequests
\* allowed checks in one window, however cleanup() is interleaved; cleanup()
\* never deletes the counter row of a current window.
C39_CleanupKeepsLimit ==
  /\ []((rlLast.ruled /\ rlLast.allowed) => rlLast.nth <= rlRule.maxRequests)
  /\ [][Cleanup => \A k \in RlKeys : CurrentRow(k) => rlRows'[k] = rlRows[k]]_vars

====
